---- MODULE Spec2Model ----
(***************************************************************************)
(* The resumable NARA import pipeline: the two driver scripts              *)
(* (import_limited.py, import_full_collection.py), the NARAImporter they   *)
(* drive, the checkpoint file they persist, and the entity store they      *)
(* create entities in.  One process invocation at a time runs the main     *)
(* loop; an interruption (operator signal or process death) may end it at  *)
(* any step, and a later invocation resumes from the checkpoint file.      *)
(*                                                                         *)
(* Spec       the two drivers, with interruptions and network faults       *)
(* SpecApi    a client calling the importer's methods directly             *)
(* SpecDry    that client with an importer built for a dry run             *)
(* SpecCollide that client over a feed whose identifiers collide           *)
(* SpecLedger a client writing the importer's ledger directly              *)
(* SpecAdapter a client calling the operations of ArkeClient               *)
(* SpecHash   a client verifying one byte stream twice                     *)
(***************************************************************************)
EXTENDS Integers, Sequences, FiniteSets, TLC

(***************************************************************************)
(* Bounds of the model.  The three loop parameters of main() are scaled    *)
(* down from the source's values (72 shards, a cap of 300 file units, a    *)
(* checkpoint every 10 records).                                           *)
(***************************************************************************)
TOTAL_JSONL_FILES == 2
MAX_FILE_UNITS == 3
CHECKPOINT_EVERY == 2
\* disturbances in one behaviour: failing network calls (store, shard
\* download) and invocations of the script after the first
MaxEvents == 1
\* calls a client of the NARAImporter class makes in one behaviour of SpecApi
MaxApiCalls == 3
\* longest byte stream, and largest chunk_size, the Content Verifier is given
MaxStreamLen == 3

\* Python's None, for an Optional[str] store id
None == 0
\* the store id of the fixed anchor entity (the Arke genesis block)
ArkePi == 1
\* the string "dry-run-pi" that a dry run records instead of a store id
DryRunPi == -1

(***************************************************************************)
(* str(naId): the decimal string of a source identifier, as a sequence of  *)
(* digits.  Ledger keys are these strings.                                 *)
(***************************************************************************)
RECURSIVE Str(_)
Str(n) == IF n < 10 THEN <<n>> ELSE Str(n \div 10) \o <<n % 10>>

Max(S) == CHOOSE x \in S : \A y \in S : y <= x

(***************************************************************************)
(* The bulk source feed: shard number -> sequence of SourceRecords.        *)
(* objectId is a string in the feed; naId is a number.  `bad` marks an     *)
(* asset whose remote URL always fails verification.                       *)
(***************************************************************************)
Obj(id, size, bad) == [objectId |-> Str(id), objectFileSize |-> size, bad |-> bad]
Anc(level, id) == [levelOfDescription |-> level, naId |-> id]
Rec(id, ancestors, objs) == [naId |-> id, ancestors |-> ancestors, digitalObjects |-> objs]
Both(c, s) == <<Anc("collection", c), Anc("series", s)>>

Scenarios == {"shared", "malformed", "five", "corrupt", "pair"}

FileRecords(sc, f) ==
    CASE sc = "shared" /\ f = 1 ->
            << Rec(101, Both(7, 11), <<Obj(501, 4, FALSE)>>),
               Rec(102, Both(7, 11), <<>>),
               Rec(103, Both(7, 12), <<Obj(502, 2, TRUE), Obj(503, 3, FALSE)>>) >>
      [] sc = "shared" /\ f = 2 ->
            << Rec(104, Both(7, 12), <<>>) >>
      [] sc = "malformed" /\ f = 1 ->
            << Rec(101, <<Anc("collection", 7)>>, <<Obj(501, 4, FALSE)>>),
               Rec(102, Both(7, 11), <<Obj(502, 2, FALSE)>>),
               Rec(103, <<Anc("series", 11)>>, <<>>) >>
      [] sc = "malformed" /\ f = 2 ->
            << Rec(104, <<>>, <<>>),
               Rec(105, Both(7, 11), <<>>) >>
      [] sc = "five" /\ f = 1 ->
            << Rec(101, Both(7, 11),
                   <<Obj(501, 1, FALSE), Obj(502, 1, FALSE), Obj(503, 1, TRUE),
                     Obj(504, 1, FALSE), Obj(505, 1, FALSE)>>),
               Rec(102, Both(7, 11), <<Obj(506, 2, TRUE)>>) >>
      [] sc = "corrupt" /\ f = 1 ->
            << Rec(101, Both(7, 11), <<>>) >>
      [] sc = "pair" /\ f = 1 ->
            << Rec(101, Both(7, 11), <<Obj(501, 4, FALSE)>>),
               Rec(102, Both(7, 11), <<>>) >>
      \* identifiers that meet across levels: asset "7" and collection 7,
      \* file unit 11 and series 11, collection 101 and series 101 and file
      \* unit 101
      [] sc = "collide" /\ f = 1 ->
            << Rec(101, Both(7, 11), <<Obj(7, 1, FALSE), Obj(507, 1, FALSE)>>),
               Rec(11, Both(7, 12), <<Obj(508, 1, FALSE)>>),
               Rec(102, Both(101, 13), <<>>),
               Rec(103, Both(7, 101), <<>>) >>
      [] OTHER -> <<>>

\* a shard with a line that is not a JSON document (or has no "record" key):
\* json.loads / data["record"] raise inside download_jsonl_file, whose
\* except clause names subprocess.CalledProcessError only
UnparsableShard(sc, f) == sc = "corrupt" /\ f = 2

VARIABLES
    script,          \* which driver runs: "limited", "full", or "api" (a client
                     \* of the NARAImporter class, as test_import_sample.py)
    scenario,        \* which source feed is read
    dry_run,         \* NARAImporter.dry_run, fixed when the importer is built
    entities,        \* the store: the entity with store id p is entities[p]
    calls,           \* every adapter / verifier call issued, in order
    ckptFile,        \* the checkpoint file: <<>> when absent, else <<content>>
    pc,              \* position of the running process, "off" when none runs
    run,             \* number of invocations started so far
    exitCode,        \* exit status of the last invocation that ended
    events,          \* disturbances so far: failed calls and re-invocations
    ended,           \* how each invocation that ended did end
    apiCalls,        \* the calls a client made on the importer, by name
    result,          \* the value the last importer call returned
    lastCursor,      \* the cursor of the last checkpoint written in full
    stops,           \* where each operator stop (or kill) reached the process
    checkpoint,      \* main(): the dict load_checkpoint returned, as loaded
    start_record_index,
    file_num,
    i,               \* index of the current record in the current shard
    k,               \* import_fileunit: page number of the current asset
    total_records_processed,
    nara_to_pi,      \* NARAImporter.nara_to_pi
    institution_pi,  \* NARAImporter.institution_pi
    stats            \* NARAImporter.stats

vars == <<script, scenario, dry_run, entities, calls, ckptFile, pc, run, exitCode, events,
          ended, apiCalls, result, lastCursor, stops, checkpoint, start_record_index, file_num, i, k,
          total_records_processed, nara_to_pi, institution_pi, stats>>

fixedVars == <<script, scenario, dry_run>>
storeVars == <<entities, calls, events>>
importerVars == <<nara_to_pi, institution_pi, stats>>
loopVars == <<checkpoint, start_record_index, file_num, i, total_records_processed>>
exitVars == <<run, exitCode, ended, apiCalls, lastCursor, stops>>

(***************************************************************************)
(* Small helpers for Python values.                                        *)
(***************************************************************************)
\* a lookup that never finds the key
NeverFound(d, key) == None
\* dict.get(key): the value, or None when the key is absent
Get(d, key) == IF key \in DOMAIN d THEN d[key] ELSE None
\* a ledger write that keeps nothing but the new entry
ForgetfulMapping(ledger, nara_id, pi) == [key \in {nara_id} |-> pi]
\* self.nara_to_pi[nara_id] = pi: a plain dict item assignment
RecordMapping(ledger, nara_id, pi) ==
    [key \in DOMAIN ledger \cup {nara_id} |-> IF key = nara_id THEN pi ELSE ledger[key]]
\* an importer that keeps no statistics
NoCount(st, name, n) == st
\* stats[name] += n
Bump(st, name, n) == [st EXCEPT ![name] = @ + n]

ZeroStats ==
    [institutions_created |-> 0, collections_created |-> 0, series_created |-> 0,
     fileunits_created |-> 0, digitalobjects_created |-> 0, bytes_hashed |-> 0,
     errors |-> 0]

\* the source id under which the institution's calls are logged (it has no naId)
InstitutionKey == <<>>

(***************************************************************************)
(* extract_hierarchy_info: the collection and the series ancestor of a     *)
(* record (the last one of each level wins), None when absent.             *)
(***************************************************************************)
AncestorOf(record, level) ==
    LET idx == {j \in 1..Len(record.ancestors) :
                    record.ancestors[j].levelOfDescription = level}
    IN IF idx = {} THEN None ELSE record.ancestors[Max(idx)].naId

extract_hierarchy_info(record) ==
    [collection |-> AncestorOf(record, "collection"),
     series |-> AncestorOf(record, "series")]

\* an import_record that does not look at the ancestors
NoAncestorCheck(record) == FALSE
\* import_record raises ValueError for a record without both ancestors
MissingAncestor(record) ==
    \/ extract_hierarchy_info(record).collection = None
    \/ extract_hierarchy_info(record).series = None

(***************************************************************************)
(* The checkpoint file.                                                    *)
(***************************************************************************)
\* what open(checkpoint_file, 'w') leaves until json.dump has finished:
\* a file that is not a JSON document
Torn == [torn |-> TRUE]

\* save_checkpoint: the document each driver writes
CheckpointContent(file_number, record_index) ==
    IF script = "limited"
    THEN [file_number |-> file_number, record_index |-> record_index,
          timestamp |-> "now",
          nara_to_pi |-> nara_to_pi, institution_pi |-> institution_pi]
    ELSE [file_number |-> file_number, record_index |-> record_index,
          timestamp |-> "now"]

\* a start that ignores the checkpoint file
no_checkpoint ==
    [file_number |-> 1, record_index |-> 0,
     nara_to_pi |-> <<>>, institution_pi |-> None]

\* load_checkpoint of import_limited.py, for a file that parses or is absent
load_checkpoint_limited ==
    IF ckptFile # <<>>
    THEN ckptFile[1] @@ [nara_to_pi |-> <<>>, institution_pi |-> None]
    ELSE [file_number |-> 1, record_index |-> 0,
          nara_to_pi |-> <<>>, institution_pi |-> None]

\* load_checkpoint of import_full_collection.py
load_checkpoint_full ==
    IF ckptFile # <<>>
    THEN ckptFile[1]
    ELSE [file_number |-> 1, record_index |-> 0]

\* json.load raises on a file that is not a JSON document
Unparsable == ckptFile = <<Torn>>

\* an importer built without the checkpoint's mappings
NoMappings(ckpt) == <<>>
\* NARAImporter.__init__: self.nara_to_pi = initial_mappings or {}
InitialMappings(ckpt) == ckpt.nara_to_pi
\* NARAImporter.__init__: self.institution_pi = institution_pi
InitialInstitution(ckpt) == ckpt.institution_pi

(***************************************************************************)
(* The entity store and the adapter calls.  The store assigns the next     *)
(* free id to a created entity and records its parent link.                *)
(***************************************************************************)
\* pkey is the ledger key the parent id was looked up under; run and at say
\* which invocation made the call and at which <<shard, record index>>
Call(op, level, sid, pkey, parent, ok) ==
    [run |-> run, at |-> <<file_num, i>>, op |-> op, level |-> level, sid |-> sid,
     pkey |-> pkey, parent |-> parent, ok |-> ok, page |-> None]

\* may the next network call fail?
NetOutcomesAt(e) == IF e < MaxEvents THEN {TRUE, FALSE} ELSE {TRUE}
NetOutcomes == NetOutcomesAt(events)
\* upload_json followed by create_entity
StoreOutcomes ==
    IF events < MaxEvents THEN {"ok", "upload_fails", "create_fails"} ELSE {"ok"}
\* import_institution also reads the anchor entity in between
InstOutcomes ==
    IF events < MaxEvents THEN {"ok", "upload_fails", "arke_fails", "create_fails"}
    ELSE {"ok"}

\* the id the store gives the next created entity
NewPi == Len(entities) + 1

\* the calls upload_json + create_entity add to the log
CallsAfter(log, level, sid, pkey, parent, out) ==
    IF out = "upload_fails"
    THEN Append(log, Call("upload", level, sid, pkey, None, FALSE))
    ELSE log \o << Call("upload", level, sid, pkey, None, TRUE),
                   Call("create", level, sid, pkey, parent, out # "create_fails") >>

\* POST /entities: a successful create adds the entity with its parent link
EntitiesAfter(level, sid, parent, out) ==
    IF out \in {"upload_fails", "create_fails"} THEN entities
    ELSE Append(entities, [level |-> level, sid |-> sid, parent |-> parent, run |-> run])

\* an importer that ignores its dry_run flag
FlagIgnored(flag) == FALSE
\* `if self.dry_run:` in every import_* method
IsDryRun(flag) == flag

\* a dedup check that never finds anything
NeverImported(ledger, nara_id) == FALSE
\* the dedup check of every import_* method: nara_id in self.nara_to_pi
AlreadyImported(ledger, nara_id) == nara_id \in DOMAIN ledger

\* the record the main loop is at
CurrentRecords == FileRecords(scenario, file_num)
CurrentRecord == CurrentRecords[i + 1]

\* the store with the anchor entity alone, no checkpoint file, no process
InitState ==
    /\ entities = << [level |-> "arke", sid |-> InstitutionKey, parent |-> None, run |-> 0] >>
    /\ calls = <<>>
    /\ ckptFile = <<>>
    /\ run = 0
    /\ exitCode = None
    /\ events = 0
    /\ ended = <<>>
    /\ apiCalls = <<>>
    /\ result = None
    /\ lastCursor = <<>>
    /\ stops = <<>>
    /\ checkpoint = <<>>
    /\ start_record_index = 0
    /\ file_num = 1
    /\ i = 0
    /\ k = 1
    /\ total_records_processed = 0
    /\ nara_to_pi = <<>>
    /\ institution_pi = None
    /\ stats = ZeroStats

InitCommon ==
    /\ scenario \in Scenarios
    /\ InitState

Init ==
    /\ script \in {"limited", "full"}
    /\ pc = "off"
    /\ dry_run = FALSE
    /\ InitCommon

(***************************************************************************)
(* The end of an invocation, and main() up to the loop.                    *)
(***************************************************************************)
\* has the running process just completed a save_checkpoint, with nothing
\* done since?
AtCheckpoint ==
    \/ pc = "rec" /\ ckptFile = <<CheckpointContent(file_num, i)>>
    \/ pc = "file" /\ ckptFile = <<CheckpointContent(file_num, 0)>>

\* the memory of a process that is gone, and of one that has just started
FreshLoop ==
    /\ start_record_index' = 0
    /\ file_num' = 1
    /\ i' = 0
    /\ k' = 1
    /\ total_records_processed' = 0
    /\ result' = None

\* sys.exit(1), by KeyboardInterrupt or by an exception that leaves main(),
\* or the death of the process: its memory is gone, the store and the file stay
Abort(how) ==
    /\ pc' = "off"
    /\ exitCode' = 1
    /\ ended' = Append(ended, how)
    /\ checkpoint' = <<>>
    /\ nara_to_pi' = <<>>
    /\ institution_pi' = None
    /\ stats' = ZeroStats
    /\ FreshLoop

\* the first iteration of `for file_num in range(start_file, ...)`
EnterLoop(ckpt) ==
    /\ file_num' = ckpt.file_number
    /\ start_record_index' = ckpt.record_index
    /\ total_records_processed' = 0
    /\ pc' = "file"

\* a main() that goes on whatever the health check says
HealthIgnored(ok) == FALSE
\* main(): `except Exception as e: ... sys.exit(1)` around client.health_check()
StartupFails(ok) == ~ok

\* A new invocation: health check, then (import_limited) load_checkpoint and
\* the construction of the importer from it; import_full_collection builds
\* the importer without any mappings.
Start ==
    /\ pc = "off"
    /\ run = 0 \/ events < MaxEvents
    /\ run' = run + 1
    /\ \E ok \in NetOutcomesAt(IF run = 0 THEN events ELSE events + 1) :
        /\ events' = (IF run = 0 THEN events ELSE events + 1) + (IF ok THEN 0 ELSE 1)
        /\ calls' = Append(calls, [Call("health", "none", InstitutionKey, InstitutionKey, None, ok)
                                      EXCEPT !.run = run + 1])
        /\ IF StartupFails(ok) \/ (script = "limited" /\ Unparsable)
           THEN Abort("failed")
           ELSE /\ pc' = "inst"
                /\ exitCode' = None
                /\ stats' = ZeroStats
                /\ FreshLoop
                /\ UNCHANGED ended
                /\ IF script = "limited"
                   THEN /\ checkpoint' = load_checkpoint_limited
                        /\ nara_to_pi' = InitialMappings(load_checkpoint_limited)
                        /\ institution_pi' = InitialInstitution(load_checkpoint_limited)
                   ELSE /\ checkpoint' = <<>>
                        /\ nara_to_pi' = <<>>
                        /\ institution_pi' = None
    /\ UNCHANGED <<fixedVars, entities, ckptFile, apiCalls, lastCursor, stops>>

\* an institution check that never finds one
NoInstitutionYet(pi) == FALSE
\* import_institution's check `if self.institution_pi:`
InstitutionImported(pi) == pi # None

\* an import_institution without the try around get_arke_block
AnchorFailureFatal(exc) == FALSE
\* import_institution's `except Exception as e:` around get_arke_block
AnchorLookupCatches(exc) == exc = "Exception"
\* an institution created without a parent link
NoParent(arke_pi) == None
\* create_entity(..., parent_pi=arke_pi, ...)
InstitutionParent(arke_pi) == arke_pi

\* NARAImporter.import_institution, then the rest of main() up to the loop
\* (import_full_collection loads its checkpoint only here); for a client of
\* the class, the return to the client.
ImportInstitution ==
    /\ pc = "inst"
    /\ \E out \in (IF InstitutionImported(institution_pi) THEN {"skip"}
                  ELSE IF IsDryRun(dry_run) THEN {"dry"} ELSE InstOutcomes) :
        LET \* arke_pi = arke_block["pi"], or None in the except clause
            arke_pi == IF out = "arke_fails" THEN None ELSE ArkePi
            parent == InstitutionParent(arke_pi)
            fatal == out = "arke_fails" /\ ~AnchorLookupCatches("Exception")
            upload(ok) == Call("upload", "institution", InstitutionKey, InstitutionKey, None, ok)
            log1 == IF out \in {"skip", "dry"} THEN calls
                    ELSE IF out = "upload_fails" THEN Append(calls, upload(FALSE))
                    ELSE IF fatal
                    THEN calls \o
                         << upload(TRUE),
                            Call("arke", "institution", InstitutionKey, InstitutionKey,
                                 None, FALSE) >>
                    ELSE calls \o
                         << upload(TRUE),
                            Call("arke", "institution", InstitutionKey, InstitutionKey,
                                 None, out # "arke_fails"),
                            Call("create", "institution", InstitutionKey, InstitutionKey,
                                 parent, out # "create_fails") >>
            created == out \in {"ok", "arke_fails"} /\ ~fatal
            raised == out \in {"upload_fails", "create_fails"} \/ fatal
            \* dry run: self.institution_pi = "dry-run-pi"
            pi == IF created THEN NewPi
                  ELSE IF out = "dry" THEN DryRunPi ELSE institution_pi
        IN
        /\ calls' = log1
        /\ events' = IF out \in {"skip", "dry", "ok"} THEN events ELSE events + 1
        /\ entities' = IF created
                       THEN EntitiesAfter("institution", InstitutionKey, parent, out)
                       ELSE entities
        /\ IF script = "api"
           THEN /\ pc' = "api"
                /\ institution_pi' = pi
                /\ stats' = IF created THEN Bump(stats, "institutions_created", 1) ELSE stats
                /\ result' = IF raised THEN result ELSE pi
                /\ UNCHANGED <<checkpoint, file_num, start_record_index,
                               total_records_processed, i, k, nara_to_pi,
                               exitCode, ended>>
           ELSE IF raised \/ (script = "full" /\ Unparsable)
           THEN \* the exception leaves main(): traceback, exit status 1
                Abort("failed")
           ELSE /\ institution_pi' = pi
                /\ stats' = IF created THEN Bump(stats, "institutions_created", 1) ELSE stats
                /\ result' = pi
                /\ checkpoint' = IF script = "limited" THEN checkpoint
                                 ELSE load_checkpoint_full
                /\ EnterLoop(IF script = "limited" THEN checkpoint ELSE load_checkpoint_full)
                /\ UNCHANGED <<i, k, nara_to_pi, exitCode, ended>>
    /\ UNCHANGED <<fixedVars, ckptFile, run, apiCalls, lastCursor, stops>>

(***************************************************************************)
(* main(): the loop over the shards and the loop over a shard's records.   *)
(***************************************************************************)
CapReached == script = "limited" /\ total_records_processed >= MAX_FILE_UNITS

\* a shard loop that stays at the shard it is at
SameFile(f) == f
\* `for file_num in range(start_file, TOTAL_JSONL_FILES + 1)`: the next shard
NextFile(f) == f + 1

\* Top of the shard loop: end of range, cap check, download_jsonl_file.
FileLoop ==
    /\ pc = "file"
    /\ IF file_num > TOTAL_JSONL_FILES \/ CapReached
       THEN /\ pc' = "finish"
            /\ UNCHANGED <<file_num, i, events, exitCode, ended, lastCursor, stops, result, checkpoint,
                           start_record_index, k, total_records_processed,
                           importerVars>>
       ELSE \E ok \in NetOutcomes :
            LET records == IF ok THEN FileRecords(scenario, file_num) ELSE <<>> IN
            /\ events' = IF ok THEN events ELSE events + 1
            /\ IF ok /\ UnparsableShard(scenario, file_num)
               THEN \* json.loads raises out of download_jsonl_file, past the
                    \* loops, into main()'s except Exception: sys.exit(1)
                    Abort("failed_in_loop")
               ELSE /\ IF records = <<>>
                       THEN \* `if not records: continue`
                            /\ file_num' = NextFile(file_num)
                            /\ pc' = "file"
                            /\ i' = i
                       ELSE /\ file_num' = file_num
                            /\ pc' = "rec"
                            /\ i' = 0
                    /\ UNCHANGED <<exitCode, ended, lastCursor, stops, result, checkpoint,
                                   start_record_index, k, total_records_processed,
                                   importerVars>>
    /\ UNCHANGED <<fixedVars, entities, calls, ckptFile, run, apiCalls, lastCursor, stops>>

\* import_record passes a level whose source id is already in the ledger
\* without any call: the position at which the next store call is due.
AtSeries(ledger, record) ==
    IF AlreadyImported(ledger, Str(extract_hierarchy_info(record).series))
    THEN "fu" ELSE "series"
AtCollection(ledger, record) ==
    IF AlreadyImported(ledger, Str(extract_hierarchy_info(record).collection))
    THEN AtSeries(ledger, record) ELSE "coll"

\* a loop that takes every shard from its first record
FromTheTop(start_file) == 0
\* start_idx = start_record_index if file_num == start_file else 0
start_idx(start_file) == IF file_num = start_file THEN start_record_index ELSE 0

\* One iteration of `for i, record in enumerate(records)` up to the first
\* store call of import_record, or the end of the loop with the shard's
\* closing save_checkpoint opened.
RecordLoop ==
    /\ pc = "rec"
    /\ IF CapReached
       THEN /\ pc' = "finish"
            /\ UNCHANGED <<i, ckptFile, start_record_index>>
       ELSE IF i >= Len(CurrentRecords)
       THEN /\ start_record_index' = 0
            /\ ckptFile' = <<Torn>>
            /\ pc' = "save_file"
            /\ i' = i
       ELSE IF i < start_idx(checkpoint.file_number)
       THEN /\ i' = i + 1
            /\ pc' = "rec"
            /\ UNCHANGED <<ckptFile, start_record_index>>
       ELSE IF MissingAncestor(CurrentRecord)
            THEN \* ValueError, caught by the loop: next record
                 /\ i' = i + 1
                 /\ pc' = "rec"
                 /\ UNCHANGED <<ckptFile, start_record_index>>
            ELSE /\ pc' = AtCollection(nara_to_pi, CurrentRecord)
                 /\ UNCHANGED <<i, ckptFile, start_record_index>>
    /\ UNCHANGED <<fixedVars, storeVars, exitVars, result, checkpoint, file_num, k,
                   total_records_processed, importerVars>>

(***************************************************************************)
(* import_record and the NARAImporter methods it calls.  An exception out  *)
(* of import_record is caught by the record loop, which goes on with the   *)
(* next record; a client of the class gets the exception.                  *)
(***************************************************************************)
RecordFails ==
    /\ UNCHANGED <<ckptFile, result, total_records_processed>>
    /\ IF script = "api"
       THEN pc' = "api" /\ i' = i
       ELSE pc' = "rec" /\ i' = i + 1

\* a loop that goes to the next record and writes no periodic checkpoint
NextWithoutCheckpoint(total) == i' = i + 1 /\ pc' = "rec" /\ UNCHANGED ckptFile
\* `if total_records_processed % 10 == 0: save_checkpoint(...)` with the
\* file opened for writing, or else the next iteration
CheckpointOrNext(total) ==
    IF total % CHECKPOINT_EVERY = 0
    THEN /\ ckptFile' = <<Torn>>
         /\ pc' = "save_rec"
         /\ i' = i
    ELSE /\ i' = i + 1
         /\ pc' = "rec"
         /\ UNCHANGED ckptFile

\* an import_record without a return statement
ReturnsNothing(pi) == None
\* import_record: fileunit_pi = importer.import_fileunit(...); return fileunit_pi
fileunit_pi(pi) == pi

\* import_record returned pi: total_records_processed += 1; import_limited
\* then sleeps, import_full_collection goes straight to the checkpoint test
RecordDone(pi) ==
    /\ result' = fileunit_pi(pi)
    /\ IF script = "api"
       THEN /\ pc' = "api"
            /\ UNCHANGED <<i, ckptFile, total_records_processed>>
       ELSE /\ total_records_processed' = total_records_processed + 1
            /\ IF script = "limited"
               THEN /\ pc' = "sleep"
                    /\ UNCHANGED <<i, ckptFile>>
               ELSE CheckpointOrNext(total_records_processed + 1)

\* a verifier whose byte count is added before the failure is known
CountsBeforeVerifying(st) == Bump(Bump(st, "bytes_hashed", 1), "errors", 1)
\* self.stats["errors"] += 1 in import_digitalobject's except HashComputationError
HashFailureErrors(st) == Bump(st, "errors", 1)
\* self.stats["errors"] += 1 in import_fileunit's except Exception
CaughtAssetErrors(st) == Bump(st, "errors", 1)
\* an asset loop without the except clause
CatchesNothing(exc) == FALSE
\* import_fileunit's `except Exception` around import_digitalobject: both
\* HashComputationError and the adapter's errors are Exceptions
AssetLoopCatches(exc) == exc \in {"HashComputationError", "Exception"}

\* NARAImporter.import_collection for a collection not yet in the ledger
ImportCollection ==
    /\ pc = "coll"
    /\ LET collection_naid == extract_hierarchy_info(CurrentRecord).collection
           nara_id == Str(collection_naid)
       IN
       IF IsDryRun(dry_run)
       THEN \* self.nara_to_pi[nara_id] = "dry-run-pi"; return "dry-run-pi"
            /\ nara_to_pi' = RecordMapping(nara_to_pi, nara_id, DryRunPi)
            /\ pc' = AtSeries(RecordMapping(nara_to_pi, nara_id, DryRunPi), CurrentRecord)
            /\ UNCHANGED <<storeVars, stats, i, ckptFile, result, total_records_processed>>
       ELSE
       \E out \in StoreOutcomes :
            /\ calls' = CallsAfter(calls, "collection", nara_id, InstitutionKey,
                                   institution_pi, out)
            /\ entities' = EntitiesAfter("collection", nara_id, institution_pi, out)
            /\ events' = IF out = "ok" THEN events ELSE events + 1
            /\ IF out = "ok"
               THEN /\ nara_to_pi' = RecordMapping(nara_to_pi, nara_id, NewPi)
                    /\ stats' = Bump(stats, "collections_created", 1)
                    /\ pc' = AtSeries(RecordMapping(nara_to_pi, nara_id, NewPi), CurrentRecord)
                    /\ UNCHANGED <<i, ckptFile, result, total_records_processed>>
               ELSE /\ RecordFails
                    /\ UNCHANGED <<nara_to_pi, stats>>
    /\ UNCHANGED <<fixedVars, exitVars, checkpoint, start_record_index, file_num, k,
                   institution_pi>>

\* NARAImporter.import_series for a series not yet in the ledger
ImportSeries ==
    /\ pc = "series"
    /\ LET hierarchy == extract_hierarchy_info(CurrentRecord)
           nara_id == Str(hierarchy.series)
           parent_key == Str(hierarchy.collection)
           parent_pi == Get(nara_to_pi, parent_key)
       IN
       IF IsDryRun(dry_run)
       THEN \* self.nara_to_pi[nara_id] = "dry-run-pi"; return "dry-run-pi"
            /\ nara_to_pi' = RecordMapping(nara_to_pi, nara_id, DryRunPi)
            /\ pc' = "fu"
            /\ UNCHANGED <<storeVars, stats, i, ckptFile, result, total_records_processed>>
       ELSE
       \E out \in StoreOutcomes :
            /\ calls' = CallsAfter(calls, "series", nara_id, parent_key, parent_pi, out)
            /\ entities' = EntitiesAfter("series", nara_id, parent_pi, out)
            /\ events' = IF out = "ok" THEN events ELSE events + 1
            /\ IF out = "ok"
               THEN /\ nara_to_pi' = RecordMapping(nara_to_pi, nara_id, NewPi)
                    /\ stats' = Bump(stats, "series_created", 1)
                    /\ pc' = "fu"
                    /\ UNCHANGED <<i, ckptFile, result, total_records_processed>>
               ELSE /\ RecordFails
                    /\ UNCHANGED <<nara_to_pi, stats>>
    /\ UNCHANGED <<fixedVars, exitVars, checkpoint, start_record_index, file_num, k,
                   institution_pi>>

\* NARAImporter.import_fileunit up to its loop over the digital objects
\* (and to its return, when there is none to visit)
ImportFileUnit ==
    /\ pc = "fu"
    /\ LET hierarchy == extract_hierarchy_info(CurrentRecord)
           nara_id == Str(CurrentRecord.naId)
           parent_key == Str(hierarchy.series)
           parent_pi == Get(nara_to_pi, parent_key)
       IN
       IF AlreadyImported(nara_to_pi, nara_id)
       THEN \* return self.nara_to_pi[nara_id]: the digital objects are not visited
            /\ RecordDone(nara_to_pi[nara_id])
            /\ UNCHANGED <<storeVars, nara_to_pi, stats, k>>
       ELSE IF IsDryRun(dry_run)
       THEN \* the dry run returns "dry-run-pi" before the loop over the assets
            /\ nara_to_pi' = RecordMapping(nara_to_pi, nara_id, DryRunPi)
            /\ RecordDone(DryRunPi)
            /\ UNCHANGED <<storeVars, stats, k>>
       ELSE \E out \in StoreOutcomes :
            /\ calls' = CallsAfter(calls, "fileunit", nara_id, parent_key, parent_pi, out)
            /\ entities' = EntitiesAfter("fileunit", nara_id, parent_pi, out)
            /\ events' = IF out = "ok" THEN events ELSE events + 1
            /\ IF out = "ok"
               THEN /\ nara_to_pi' = RecordMapping(nara_to_pi, nara_id, NewPi)
                    /\ stats' = Bump(stats, "fileunits_created", 1)
                    /\ k' = 1
                    /\ IF CurrentRecord.digitalObjects = <<>>
                       THEN RecordDone(NewPi)
                       ELSE /\ pc' = "do"
                            /\ UNCHANGED <<i, ckptFile, result, total_records_processed>>
               ELSE /\ RecordFails
                    /\ UNCHANGED <<nara_to_pi, stats, k>>
    /\ UNCHANGED <<fixedVars, exitVars, checkpoint, start_record_index, file_num,
                   institution_pi>>

\* the calls of log beyond those of `before` are made for page number page
Paged(before, log, page) ==
    [n \in 1..Len(log) |->
        IF n > Len(before) THEN [log[n] EXCEPT !.page = page] ELSE log[n]]
\* a page numbering that counts the assets already in the ledger
PageOfImported(objs, ledger, n) ==
    1 + Cardinality({m \in 1..(n - 1) : objs[m].objectId \in DOMAIN ledger})
\* `for i, obj in enumerate(digital_objects, start=1)`: page_number=i
page_number(objs, ledger, n) == n

\* One iteration of import_fileunit's loop: NARAImporter.import_digitalobject
\* for asset number k and the except clause around it; after the last asset
\* import_fileunit returns the file unit's store id.
ImportDigitalObject ==
    /\ pc = "do"
    /\ LET obj == CurrentRecord.digitalObjects[k]
           object_id == obj.objectId
           parent_key == Str(CurrentRecord.naId)
           parent_pi == Get(nara_to_pi, parent_key)
           page == page_number(CurrentRecord.digitalObjects, nara_to_pi, k)
           verify(ok) == Append(calls, Call("verify", "digitalobject", object_id,
                                            parent_key, None, ok))
           hashed == Bump(stats, "bytes_hashed", obj.objectFileSize)
           \* the loop's except clause and its next iteration, or the
           \* exception on its way out of import_fileunit
           AssetRaises(exc, st) ==
                IF AssetLoopCatches(exc)
                THEN /\ stats' = CaughtAssetErrors(st)
                     /\ k' = k + 1
                     /\ IF k >= Len(CurrentRecord.digitalObjects)
                        THEN RecordDone(nara_to_pi[parent_key])
                        ELSE /\ pc' = "do"
                             /\ UNCHANGED <<i, ckptFile, result, total_records_processed>>
                ELSE /\ stats' = st
                     /\ k' = k
                     /\ RecordFails
           AssetReturns(ledger) ==
                /\ k' = k + 1
                /\ IF k >= Len(CurrentRecord.digitalObjects)
                   THEN RecordDone(ledger[parent_key])
                   ELSE /\ pc' = "do"
                        /\ UNCHANGED <<i, ckptFile, result, total_records_processed>>
       IN
       IF AlreadyImported(nara_to_pi, object_id)
       THEN /\ AssetReturns(nara_to_pi)
            /\ UNCHANGED <<storeVars, nara_to_pi, stats>>
       ELSE IF IsDryRun(dry_run)
       THEN /\ nara_to_pi' = RecordMapping(nara_to_pi, object_id, DryRunPi)
            /\ AssetReturns(RecordMapping(nara_to_pi, object_id, DryRunPi))
            /\ UNCHANGED <<storeVars, stats>>
       ELSE IF obj.bad
       THEN \* HashComputationError: counted, re-raised
            /\ calls' = Paged(calls, verify(FALSE), page)
            /\ AssetRaises("HashComputationError", HashFailureErrors(stats))
            /\ UNCHANGED <<entities, events, nara_to_pi>>
       ELSE \E out \in StoreOutcomes :
            /\ calls' = Paged(calls, CallsAfter(verify(TRUE), "digitalobject", object_id,
                                                parent_key, parent_pi, out), page)
            /\ entities' = EntitiesAfter("digitalobject", object_id, parent_pi, out)
            /\ events' = IF out = "ok" THEN events ELSE events + 1
            /\ IF out = "ok"
               THEN /\ nara_to_pi' = RecordMapping(nara_to_pi, object_id, NewPi)
                    /\ stats' = Bump(hashed, "digitalobjects_created", 1)
                    /\ AssetReturns(RecordMapping(nara_to_pi, object_id, NewPi))
               ELSE /\ AssetRaises("Exception", hashed)
                    /\ UNCHANGED nara_to_pi
    /\ UNCHANGED <<fixedVars, exitVars, checkpoint, start_record_index, file_num,
                   institution_pi>>

(***************************************************************************)
(* main(): after import_record returned.                                   *)
(***************************************************************************)
\* import_limited: time.sleep(60) returns, then the checkpoint test
Sleep ==
    /\ pc = "sleep"
    /\ CheckpointOrNext(total_records_processed)
    /\ UNCHANGED <<fixedVars, storeVars, exitVars, result, checkpoint,
                   start_record_index, file_num, k, total_records_processed,
                   importerVars>>

\* save_checkpoint(CHECKPOINT_FILE, file_num, i + 1, ...) completes
SaveRecordCheckpoint ==
    /\ pc = "save_rec"
    /\ ckptFile' = <<CheckpointContent(file_num, i + 1)>>
    /\ i' = i + 1
    /\ lastCursor' = <<file_num, i + 1>>
    /\ pc' = "rec"
    /\ UNCHANGED <<fixedVars, storeVars, run, exitCode, ended, apiCalls, stops, result, checkpoint,
                   start_record_index, file_num, k, total_records_processed,
                   importerVars>>

\* save_checkpoint(CHECKPOINT_FILE, file_num + 1, 0, ...) completes
SaveFileCheckpoint ==
    /\ pc = "save_file"
    /\ ckptFile' = <<CheckpointContent(file_num + 1, 0)>>
    /\ file_num' = NextFile(file_num)
    /\ lastCursor' = <<file_num + 1, 0>>
    /\ pc' = "file"
    /\ UNCHANGED <<fixedVars, storeVars, run, exitCode, ended, apiCalls, stops, result, checkpoint,
                   start_record_index, i, k, total_records_processed, importerVars>>

\* a completion that leaves the checkpoint file where it is
LeftInPlace(file) == file
\* if Path(CHECKPOINT_FILE).exists(): Path(CHECKPOINT_FILE).unlink()
Unlinked(file) == <<>>

\* Normal completion: statistics, removal of the checkpoint file, exit 0
Finish ==
    /\ pc = "finish"
    /\ ckptFile' = Unlinked(ckptFile)
    /\ lastCursor' = <<>>
    /\ pc' = "off"
    /\ exitCode' = 0
    /\ ended' = Append(ended, "done")
    /\ UNCHANGED <<fixedVars, storeVars, run, apiCalls, stops, result, loopVars, k,
                   importerVars>>

\* the statements inside `try:` of the record loop
InTry == {"coll", "series", "fu", "do", "sleep", "save_rec"}
\* a record loop whose handler is a bare `except:`
CatchesAll(exc) == TRUE
\* the record loop's `except Exception as e:`; KeyboardInterrupt is a
\* BaseException and not an Exception
RecordLoopCatches(exc) == exc = "Exception"

\* KeyboardInterrupt, raised wherever the process is (in time.sleep too) and
\* taken by `except KeyboardInterrupt: sys.exit(1)`, or death of the process
Interrupt ==
    /\ pc # "off"
    /\ stops' = Append(stops, pc)
    /\ IF pc \in InTry /\ RecordLoopCatches("KeyboardInterrupt")
       THEN /\ pc' = "rec"
            /\ i' = i + 1
            /\ UNCHANGED <<exitCode, ended, result, checkpoint, start_record_index,
                           file_num, k, total_records_processed, importerVars>>
       ELSE Abort(IF AtCheckpoint THEN "at_checkpoint" ELSE "interrupt")
    /\ UNCHANGED <<fixedVars, storeVars, ckptFile, run, apiCalls, lastCursor>>

Next ==
    \/ Start
    \/ ImportInstitution
    \/ FileLoop
    \/ RecordLoop
    \/ ImportCollection
    \/ ImportSeries
    \/ ImportFileUnit
    \/ ImportDigitalObject
    \/ Sleep
    \/ SaveRecordCheckpoint
    \/ SaveFileCheckpoint
    \/ Finish
    \/ Interrupt

Spec == Init /\ [][Next]_vars

(***************************************************************************)
(* A client of the NARAImporter class, as test_import_sample.py: it builds *)
(* one importer and calls import_institution and import_record on it, here *)
(* in any order and on any record of the feed.                             *)
(***************************************************************************)
InitApi ==
    /\ script = "api"
    /\ pc = "api"
    /\ dry_run = FALSE
    /\ InitCommon

\* importer.import_institution(...) is called
ApiImportInstitution ==
    /\ pc = "api"
    /\ Len(apiCalls) < MaxApiCalls
    /\ apiCalls' = Append(apiCalls, "import_institution")
    /\ pc' = "inst"
    /\ UNCHANGED <<fixedVars, storeVars, ckptFile, run, exitCode, ended, lastCursor, stops, result,
                   loopVars, k, importerVars>>

\* import_record(importer, record) is called, up to its first store call
ApiImportRecord ==
    /\ pc = "api"
    /\ Len(apiCalls) < MaxApiCalls
    /\ apiCalls' = Append(apiCalls, "import_record")
    /\ \E f \in 1..TOTAL_JSONL_FILES :
       \E j \in 1..Len(FileRecords(scenario, f)) :
       LET record == FileRecords(scenario, f)[j] IN
            /\ file_num' = f
            /\ i' = j - 1
            /\ pc' = IF MissingAncestor(record) THEN "api"
                     ELSE AtCollection(nara_to_pi, record)
    /\ UNCHANGED <<fixedVars, storeVars, ckptFile, run, exitCode, ended, lastCursor, stops, result,
                   checkpoint, start_record_index, total_records_processed, k,
                   importerVars>>

\* importer.import_digitalobject(...) is called by the client itself, for
\* asset number n of a record: the whole method, whose exceptions reach the
\* client
ApiImportDigitalObject ==
    /\ pc = "api"
    /\ Len(apiCalls) < MaxApiCalls
    /\ apiCalls' = Append(apiCalls, "import_digitalobject")
    /\ \E f \in 1..TOTAL_JSONL_FILES :
       \E j \in 1..Len(FileRecords(scenario, f)) :
       \E n \in 1..Len(FileRecords(scenario, f)[j].digitalObjects) :
       LET record == FileRecords(scenario, f)[j]
           obj == record.digitalObjects[n]
           object_id == obj.objectId
           parent_key == Str(record.naId)
           parent_pi == Get(nara_to_pi, parent_key)
           made(op, parent, ok) ==
                [run |-> run, at |-> <<f, j - 1>>, op |-> op, level |-> "digitalobject",
                 sid |-> object_id, pkey |-> parent_key, parent |-> parent, ok |-> ok,
                 page |-> n]
           hashed == Bump(stats, "bytes_hashed", obj.objectFileSize)
       IN
       /\ file_num' = f
       /\ i' = j - 1
       /\ k' = n
       /\ IF AlreadyImported(nara_to_pi, object_id)
          THEN /\ result' = nara_to_pi[object_id]
               /\ UNCHANGED <<storeVars, nara_to_pi, stats>>
          ELSE IF IsDryRun(dry_run)
          THEN /\ nara_to_pi' = RecordMapping(nara_to_pi, object_id, DryRunPi)
               /\ result' = DryRunPi
               /\ UNCHANGED <<storeVars, stats>>
          ELSE IF obj.bad
          THEN /\ calls' = Append(calls, made("verify", None, FALSE))
               /\ stats' = HashFailureErrors(stats)
               /\ UNCHANGED <<entities, events, nara_to_pi, result>>
          ELSE \E out \in StoreOutcomes :
               /\ calls' = IF out = "upload_fails"
                           THEN calls \o << made("verify", None, TRUE),
                                            made("upload", None, FALSE) >>
                           ELSE calls \o << made("verify", None, TRUE),
                                            made("upload", None, TRUE),
                                            made("create", parent_pi, out = "ok") >>
               /\ entities' = EntitiesAfter("digitalobject", object_id, parent_pi, out)
               /\ events' = IF out = "ok" THEN events ELSE events + 1
               /\ IF out = "ok"
                  THEN /\ nara_to_pi' = RecordMapping(nara_to_pi, object_id, NewPi)
                       /\ stats' = Bump(hashed, "digitalobjects_created", 1)
                       /\ result' = NewPi
                  ELSE /\ stats' = hashed
                       /\ UNCHANGED <<nara_to_pi, result>>
    /\ UNCHANGED <<fixedVars, ckptFile, pc, run, exitCode, ended, lastCursor, stops,
                   checkpoint, start_record_index, total_records_processed,
                   institution_pi>>

NextApi ==
    \/ ApiImportInstitution
    \/ ApiImportRecord
    \/ ImportInstitution
    \/ ImportCollection
    \/ ImportSeries
    \/ ImportFileUnit
    \/ ImportDigitalObject

SpecApi == InitApi /\ [][NextApi]_vars

(***************************************************************************)
(* SpecDry: a client of an importer built with dry_run=True (as            *)
(* test_import_sample.py with DRY_RUN set), which may also call            *)
(* import_digitalobject itself: in a dry run import_fileunit returns       *)
(* before its loop over the assets.                                        *)
(***************************************************************************)
InitDry ==
    /\ script = "api"
    /\ pc = "api"
    /\ dry_run = TRUE
    /\ InitCommon

NextDry ==
    \/ ApiImportInstitution
    \/ ApiImportRecord
    \/ ApiImportDigitalObject
    \/ ImportInstitution
    \/ ImportCollection
    \/ ImportSeries
    \/ ImportFileUnit

SpecDry == InitDry /\ [][NextDry]_vars

(***************************************************************************)
(* SpecCollide: the client of SpecApi over a feed in which identifiers     *)
(* of different levels have the same string form.                          *)
(***************************************************************************)
InitCollide ==
    /\ script = "api"
    /\ pc = "api"
    /\ dry_run = FALSE
    /\ scenario = "collide"
    /\ InitState

SpecCollide == InitCollide /\ [][NextApi]_vars

(***************************************************************************)
(* The ledger by itself: a client recording store ids for source ids with  *)
(* the statement the import_* methods use, self.nara_to_pi[nara_id] = pi.  *)
(***************************************************************************)
LedgerKeys == {Str(7), Str(11), Str(101)}
LedgerPis == 2 .. (MaxApiCalls + 1)

InitLedger ==
    /\ script = "ledger"
    /\ pc = "ledger"
    /\ dry_run = FALSE
    /\ InitCommon

\* record store id pi for nara_id; the statement raises nothing
LedgerRecord ==
    /\ pc = "ledger"
    /\ Len(apiCalls) < MaxApiCalls
    /\ \E nara_id \in LedgerKeys, pi \in LedgerPis :
        /\ nara_to_pi' = RecordMapping(nara_to_pi, nara_id, pi)
        /\ calls' = Append(calls, Call("record", "ledger", nara_id, nara_id, pi, TRUE))
    /\ apiCalls' = Append(apiCalls, "record")
    /\ UNCHANGED <<fixedVars, entities, events, ckptFile, pc, run, exitCode, ended, lastCursor, stops,
                   result, loopVars, k, institution_pi, stats>>

NextLedger == LedgerRecord

SpecLedger == InitLedger /\ [][NextLedger]_vars

(***************************************************************************)
(* The Entity Store Adapter by itself (arke_api_client.py): a client       *)
(* calling the operations of ArkeClient against a store that answers with  *)
(* any status, with a body that is JSON or not, or not at all.             *)
(***************************************************************************)
\* what the HTTP layer gives back for one request
Statuses == {200, 400, 403, 404, 409, 500}
Responses ==
    [fault : {TRUE}, status : {200}, json : {FALSE}]
        \cup [fault : {FALSE}, status : Statuses, json : BOOLEAN]

\* response.json() on a body that is not JSON raises
\* requests.exceptions.JSONDecodeError, a RequestException, with requests from
\* 2.27 on (then line 127 turns it into ArkeAPIError), and a plain ValueError
\* with older ones, which no clause of _request names
BadBody == {"ArkeAPIError", "ValueError"}

\* _request: the class raised for a status whose body was read
ErrorClass(status) ==
    CASE status = 400 -> "ArkeValidationError"
      [] status = 404 -> "ArkeNotFoundError"
      [] status = 409 -> "ArkeConflictError"
      [] OTHER -> "ArkeAPIError"

\* ArkeClient._request: the possible outcomes, "ok" or the exception raised
request(resp) ==
    IF resp.fault THEN {"ArkeAPIError"}
    ELSE IF resp.status \in {400, 404, 409}
         THEN IF resp.json THEN {ErrorClass(resp.status)} ELSE BadBody
    ELSE IF resp.status >= 400 THEN {ErrorClass(resp.status)}
    ELSE IF resp.json THEN {"ok"} ELSE BadBody

\* upload_bytes and download_file: self.session.post / get called directly,
\* then response.raise_for_status(); upload_bytes reads response.json()[0]
transfer(op, resp) ==
    IF resp.fault THEN {"RequestException"}
    ELSE IF resp.status >= 400 THEN {"HTTPError"}
    ELSE IF op = "upload" /\ ~resp.json THEN {"ValueError"}
    ELSE {"ok"}

\* an existence check that takes every failed read for absence
AnyErrorIsAbsence(out) == out # "ok"
\* entity_exists: `except ArkeNotFoundError: return False`
ProbeCatches(out) == out = "ArkeNotFoundError"

\* the operations that go through _request
RequestOps == {"health", "create", "read", "append", "resolve"}
TransferOps == {"upload", "download"}

InitAdapter ==
    /\ script = "adapter"
    /\ pc = "adapter"
    /\ dry_run = FALSE
    /\ InitCommon

AdapterDone(op, resp, raised, returned) ==
    /\ result' = [op |-> op, fault |-> resp.fault, status |-> resp.status,
                  json |-> resp.json, raised |-> raised, returned |-> returned]
    /\ apiCalls' = Append(apiCalls, op)
    /\ UNCHANGED <<fixedVars, storeVars, ckptFile, pc, run, exitCode, ended,
                   lastCursor, stops, loopVars, k, importerVars>>

\* health_check, create_entity, get_entity, append_version, resolve_pi
AdapterRequest ==
    /\ pc = "adapter"
    /\ Len(apiCalls) < MaxApiCalls
    /\ \E op \in RequestOps, resp \in Responses :
        \E out \in request(resp) :
            AdapterDone(op, resp, IF out = "ok" THEN "none" ELSE out, out = "ok")

\* upload_bytes (and upload_json, which calls it), download_file
AdapterTransfer ==
    /\ pc = "adapter"
    /\ Len(apiCalls) < MaxApiCalls
    /\ \E op \in TransferOps, resp \in Responses :
        \E out \in transfer(op, resp) :
            AdapterDone(op, resp, IF out = "ok" THEN "none" ELSE out, out = "ok")

\* entity_exists: get_entity inside try / except ArkeNotFoundError
AdapterProbe ==
    /\ pc = "adapter"
    /\ Len(apiCalls) < MaxApiCalls
    /\ \E resp \in Responses :
        \E out \in request(resp) :
            IF out = "ok" THEN AdapterDone("probe", resp, "none", TRUE)
            ELSE IF ProbeCatches(out) THEN AdapterDone("probe", resp, "none", FALSE)
            ELSE AdapterDone("probe", resp, out, FALSE)

NextAdapter ==
    \/ AdapterRequest
    \/ AdapterTransfer
    \/ AdapterProbe

SpecAdapter == InitAdapter /\ [][NextAdapter]_vars

(***************************************************************************)
(* The Content Verifier by itself (nara_hash_utils.py): download_and_hash  *)
(* reads the response body chunk by chunk, feeding each chunk to the       *)
(* hasher and adding its length to total_bytes.  The client verifies the   *)
(* same stream twice; the transport splits it into chunks of any length    *)
(* up to chunk_size.                                                       *)
(***************************************************************************)
\* the number of values of the digest (hashlib.sha256 has 2^256)
DigestSpace == 251
Bytes == {0, 1, 2}
RECURSIVE Streams(_)
\* the byte strings of length n
Streams(n) ==
    IF n = 0 THEN {<<>>}
    ELSE {Append(t, b) : t \in Streams(n - 1), b \in Bytes}
AllStreams == UNION {Streams(n) : n \in 0..MaxStreamLen}

RECURSIVE Absorb(_, _)
\* the compression of a byte string into a hasher state, byte by byte
Absorb(h, bytes) ==
    IF bytes = <<>> THEN h
    ELSE Absorb((h * 31 + bytes[1] + 1) % DigestSpace, Tail(bytes))
\* a hasher that starts over with every chunk
RestartingUpdate(h, chunk) == Absorb(7, chunk)
\* hasher.update(chunk): the hasher's state absorbs the chunk
update(h, chunk) == Absorb(h, chunk)
\* hashlib.sha256(): the state of a hasher that was fed nothing
NewHasher == Absorb(7, <<>>)
\* hasher.hexdigest()
hexdigest(h) == h

\* a count of the chunks instead of their bytes
CountChunks(chunk) == 1
\* total_bytes += len(chunk)
ChunkBytes(chunk) == Len(chunk)

InitHash ==
    /\ script = "hash"
    /\ pc = "hash"
    /\ dry_run = FALSE
    /\ InitCommon

\* download_and_hash_s3(s3_url, chunk_size) is called: requests.get, a new hasher
HashStart ==
    /\ pc = "hash"
    /\ Len(apiCalls) < 2
    /\ \E stream \in (IF apiCalls = <<>> THEN AllStreams ELSE {result.stream}),
          chunk_size \in 1..MaxStreamLen :
        /\ result' = [stream |-> stream, chunk_size |-> chunk_size, rest |-> stream,
                      hasher |-> NewHasher, total_bytes |-> 0,
                      returned |-> IF apiCalls = <<>> THEN <<>> ELSE result.returned]
    /\ apiCalls' = Append(apiCalls, "download_and_hash_s3")
    /\ pc' = "chunk"
    /\ UNCHANGED <<fixedVars, storeVars, ckptFile, run, exitCode, ended,
                   lastCursor, stops, loopVars, k, importerVars>>

\* one iteration of `for chunk in response.iter_content(chunk_size=chunk_size)`,
\* or the end of the body and the return of (digest_hex, total_bytes)
HashChunk ==
    /\ pc = "chunk"
    /\ IF result.rest = <<>>
       THEN /\ result' = [result EXCEPT !.returned =
                            Append(@, <<hexdigest(result.hasher), result.total_bytes>>)]
            /\ pc' = "hash"
       ELSE \E n \in 1..result.chunk_size :
            /\ n <= Len(result.rest)
            /\ LET chunk == SubSeq(result.rest, 1, n) IN
               result' = [result EXCEPT
                            !.rest = SubSeq(result.rest, n + 1, Len(result.rest)),
                            !.hasher = update(result.hasher, chunk),
                            !.total_bytes = @ + ChunkBytes(chunk)]
            /\ pc' = "chunk"
    /\ UNCHANGED <<fixedVars, storeVars, ckptFile, run, exitCode, ended, apiCalls,
                   lastCursor, stops, loopVars, k, importerVars>>

NextHash ==
    \/ HashStart
    \/ HashChunk

SpecHash == InitHash /\ [][NextHash]_vars

(***************************************************************************)
(* Vocabulary of the properties.                                           *)
(***************************************************************************)
\* the createEntity calls the store accepted
Creates == {n \in 1..Len(calls) : calls[n].op = "create" /\ calls[n].ok}
\* those issued by invocation r
CreatesOf(r) == {n \in Creates : calls[n].run = r}
\* no store call, health check or shard download failed so far: every
\* disturbance counted is an invocation after the first
NoNetworkFault == events = IF run = 0 THEN 0 ELSE run - 1
\* the running process is at a position of the record loop after import_record
AfterRecord == pc \in {"sleep", "save_rec", "rec"}

RECURSIVE FeedFrom(_, _)
\* the records of shards f .. TOTAL_JSONL_FILES, in reading order
FeedFrom(sc, f) ==
    IF f > TOTAL_JSONL_FILES THEN <<>>
    ELSE FileRecords(sc, f) \o FeedFrom(sc, f + 1)
\* the records an uninterrupted run imports: those with both ancestors, and of
\* these import_limited takes the first MAX_FILE_UNITS
Importable(sc) == SelectSeq(FeedFrom(sc, 1), LAMBDA r : ~MissingAncestor(r))
Taken(sc) ==
    IF script = "limited" /\ Len(Importable(sc)) > MAX_FILE_UNITS
    THEN SubSeq(Importable(sc), 1, MAX_FILE_UNITS)
    ELSE Importable(sc)
KeysOf(r) ==
    {Str(extract_hierarchy_info(r).collection), Str(extract_hierarchy_info(r).series),
     Str(r.naId)}
    \cup {r.digitalObjects[n].objectId :
            n \in {m \in 1..Len(r.digitalObjects) : ~r.digitalObjects[m].bad}}
\* the ledger an uninterrupted run without network faults ends with
ExpectedKeys == UNION {KeysOf(Taken(scenario)[n]) : n \in 1..Len(Taken(scenario))}
\* and the entities the store then holds: the anchor, the institution, one per key
ExpectedCount == Cardinality(ExpectedKeys) + 2

\* An uninterrupted run without network faults ends with exactly the expected
\* ledger and entity count.
UninterruptedRunMatchesExpected ==
    (ended = <<"done">> /\ pc = "off" /\ NoNetworkFault)
        => /\ DOMAIN nara_to_pi = ExpectedKeys
           /\ Len(entities) = ExpectedCount
UninterruptedRunCompleted ==
    ended = <<"done">> /\ pc = "off" /\ NoNetworkFault /\ scenario = "shared"

\* C1: a run that was interrupted right after writing a checkpoint (once or
\* several times), resumed from it each time and then completed, without any
\* network fault, ends with the same ledger keys and the same number of store
\* entities as the uninterrupted run over the same input.
C1_IdempotentResume ==
    ( /\ pc = "off"
      /\ Len(ended) >= 2
      /\ ended[Len(ended)] = "done"
      /\ \A n \in 1..(Len(ended) - 1) : ended[n] = "at_checkpoint"
      /\ NoNetworkFault )
        => /\ DOMAIN nara_to_pi = ExpectedKeys
           /\ Len(entities) = ExpectedCount

\* C2: when every invocation that ended so far was interrupted (and the next
\* one resumed from the checkpoint file), no two entities of the store were
\* created for the same source entity.
C2_ExactlyOnceCreation ==
    (\A n \in 1..Len(ended) : ended[n] \in {"interrupt", "at_checkpoint"})
        => \A a, b \in 1..Len(entities) :
              (entities[a].level = entities[b].level /\ entities[a].sid = entities[b].sid)
                  => a = b

\* C4: every completely written checkpoint file holds the shard index, the
\* record index, the id table and the institution id, and an importer that
\* has just been started from it holds that table and that institution id.
C4_CheckpointHoldsAllFour ==
    (ckptFile # <<>> /\ ckptFile # <<Torn>>)
        => /\ {"file_number", "record_index", "nara_to_pi", "institution_pi"}
                  \subseteq DOMAIN ckptFile[1]
           /\ pc = "inst" => /\ nara_to_pi = ckptFile[1].nara_to_pi
                             /\ institution_pi = ckptFile[1].institution_pi

\* C10: in the feed whose first record has five assets of which the third
\* always fails verification, once that record is imported (first invocation,
\* no network fault) the counters read 1 file unit, 4 digital objects, 1 error.
C10_OneErrorPerFailedAsset ==
    ( /\ scenario = "five" /\ run = 1 /\ AfterRecord /\ NoNetworkFault
      /\ file_num = 1 /\ i = 0 /\ total_records_processed = 1 )
        => /\ stats.fileunits_created = 1
           /\ stats.digitalobjects_created = 4
           /\ stats.errors = 1

\* what the running process loaded from the checkpoint file at startup
SnapshotLedger ==
    IF pc # "off" /\ "nara_to_pi" \in DOMAIN checkpoint THEN checkpoint.nara_to_pi ELSE <<>>
SnapshotInstitution ==
    IF pc # "off" /\ "institution_pi" \in DOMAIN checkpoint
    THEN checkpoint.institution_pi ELSE None
\* the createEntity calls of the running invocation, accepted or not
CreateCallsOfRun == {n \in 1..Len(calls) : calls[n].op = "create" /\ calls[n].run = run}

\* C3: the running invocation issues no createEntity call for a source id of
\* the ledger snapshot it loaded from the checkpoint, none for the institution
\* if the checkpoint held its id, and a child whose parent is in the snapshot
\* is created with the snapshot's store id as parent.
C3_NoRecreationAfterResume ==
    \A n \in CreateCallsOfRun :
        /\ calls[n].level # "institution" => calls[n].sid \notin DOMAIN SnapshotLedger
        /\ calls[n].level = "institution" => SnapshotInstitution = None
        /\ (calls[n].level # "institution" /\ calls[n].pkey \in DOMAIN SnapshotLedger)
              => calls[n].parent = SnapshotLedger[calls[n].pkey]
        /\ (calls[n].level = "collection" /\ SnapshotInstitution # None)
              => calls[n].parent = SnapshotInstitution
\* a resumed invocation has created a child under a parent of its snapshot
C3_Witness ==
    /\ run >= 2
    /\ SnapshotInstitution # None
    /\ \E n \in CreateCallsOfRun :
          /\ calls[n].ok
          /\ calls[n].pkey \in DOMAIN SnapshotLedger
          /\ calls[n].parent = SnapshotLedger[calls[n].pkey]

ParentLevel(level) == IF level = "fileunit" THEN "series" ELSE "collection"

\* C5: within one invocation, at most one entity is created per series id and
\* per collection id; two file units whose records share the series id (two
\* series that share the collection id) are created with the same parent store
\* id, which is the entity of that series (collection), created exactly once
\* by this invocation unless its id came with the loaded snapshot.
C5_AncestorDedup ==
    pc # "off" =>
    \A a, b \in CreatesOf(run) :
        /\ ( /\ calls[a].level \in {"collection", "series"}
             /\ calls[a].level = calls[b].level
             /\ calls[a].sid = calls[b].sid ) => a = b
        /\ ( /\ calls[a].level \in {"fileunit", "series"}
             /\ calls[a].level = calls[b].level
             /\ calls[a].pkey = calls[b].pkey )
            => /\ calls[a].parent = calls[b].parent
               /\ calls[a].parent \in 2..Len(entities)
               /\ entities[calls[a].parent].level = ParentLevel(calls[a].level)
               /\ entities[calls[a].parent].sid = calls[a].pkey
               /\ Cardinality({c \in CreatesOf(run) :
                                  /\ calls[c].level = ParentLevel(calls[a].level)
                                  /\ calls[c].sid = calls[a].pkey})
                    = IF calls[a].pkey \in DOMAIN SnapshotLedger THEN 0 ELSE 1
\* two file units of one invocation were created under the same series
C5_Witness ==
    /\ pc # "off"
    /\ \E a, b \in CreatesOf(run) :
          /\ a # b
          /\ calls[a].level = "fileunit" /\ calls[b].level = "fileunit"
          /\ calls[a].pkey = calls[b].pkey

\* C6: a step of a running invocation keeps every key of the ledger, with its
\* value, and issues no createEntity call for a source id that is a key.
C6_LedgerStep ==
    (pc # "off" /\ pc' # "off") =>
        \A key \in DOMAIN nara_to_pi :
            /\ key \in DOMAIN nara_to_pi'
            /\ nara_to_pi'[key] = nara_to_pi[key]
            /\ \A n \in (Len(calls) + 1)..Len(calls') :
                  ~(calls'[n].op = "create" /\ calls'[n].sid = key)
C6_LedgerInvariant == [][C6_LedgerStep]_vars
\* the second record of the shard has passed its collection and its series,
\* both in the ledger, and each was created once
C6_Witness ==
    /\ scenario = "shared" /\ run = 1 /\ pc = "fu" /\ file_num = 1 /\ i = 1
    /\ {Str(7), Str(11), Str(101)} \subseteq DOMAIN nara_to_pi
    /\ Cardinality({n \in Creates : calls[n].sid = Str(11)}) = 1

\* C9: a step of import_fileunit's loop takes asset k and moves on to asset
\* k + 1; when the asset's verification fails, nothing is created and the
\* ledger stays as it is, with the file unit's entry; after the last asset
\* import_record returns the file unit's store id and the record loop counts
\* the record and goes on.
C9_AssetStep ==
    ( /\ pc = "do" /\ pc' # "off"
      /\ ~AlreadyImported(nara_to_pi, CurrentRecord.digitalObjects[k].objectId) )
    => LET fu == Str(CurrentRecord.naId)
           obj == CurrentRecord.digitalObjects[k]
       IN
       /\ calls'[Len(calls) + 1].op = "verify"
       /\ calls'[Len(calls) + 1].sid = obj.objectId
       /\ k' = k + 1
       /\ fu \in DOMAIN nara_to_pi'
       /\ nara_to_pi'[fu] = nara_to_pi[fu]
       /\ entities[nara_to_pi[fu]].level = "fileunit"
       /\ entities[nara_to_pi[fu]].sid = fu
       /\ obj.bad => /\ nara_to_pi' = nara_to_pi
                     /\ entities' = entities
                     /\ calls'[Len(calls) + 1].ok = FALSE
                     /\ stats'.errors > stats.errors
       /\ IF k < Len(CurrentRecord.digitalObjects)
          THEN pc' = "do" /\ i' = i /\ file_num' = file_num
          ELSE /\ result' = nara_to_pi[fu]
               /\ total_records_processed' = total_records_processed + 1
               /\ pc' \in {"sleep", "save_rec", "rec"}
               /\ pc' = "rec" => i' = i + 1
C9_FailureIsolation == [][C9_AssetStep]_vars
\* record 103: asset 502 failed verification, asset 503 after it was created,
\* and the record returned the file unit's store id
C9_Witness ==
    /\ scenario = "shared" /\ pc \in {"sleep", "save_rec", "rec"}
    /\ Str(103) \in DOMAIN nara_to_pi
    /\ Str(503) \in DOMAIN nara_to_pi
    /\ Str(502) \notin DOMAIN nara_to_pi
    /\ result = nara_to_pi[Str(103)]
    /\ stats.errors > 0

\* C8: import_institution called on an importer that holds an institution id
\* returns that id, issues no call, creates nothing, and the institution
\* counter is 1 before and after.
C8_SecondCallStep ==
    (pc = "inst" /\ institution_pi # None) =>
        /\ result' = institution_pi
        /\ institution_pi' = institution_pi
        /\ calls' = calls
        /\ entities' = entities
        /\ stats.institutions_created = 1
        /\ stats'.institutions_created = 1
C8_WriteOnceInstitution == [][C8_SecondCallStep]_vars
\* two calls of import_institution, without faults, have returned
C8_Witness ==
    /\ pc = "api"
    /\ apiCalls = <<"import_institution", "import_institution">>
    /\ events = 0
    /\ institution_pi # None
    /\ result = institution_pi
    /\ Cardinality(Creates) = 1

\* C7: when a store id is recorded for a source id that already has a
\* different one, the write raises an error and the ledger keeps the first id.
C7_WriteOnceLedger ==
    \A a, b \in 1..Len(calls) :
        ( /\ a < b
          /\ calls[a].op = "record" /\ calls[b].op = "record"
          /\ calls[a].sid = calls[b].sid
          /\ calls[a].parent # calls[b].parent
          /\ \A c \in 1..(a - 1) : calls[c].sid # calls[a].sid )
        => /\ ~calls[b].ok
           /\ nara_to_pi[calls[a].sid] = calls[a].parent

\* the step ends the import of the current record with an error: the record
\* lacks an ancestor, or an upload or createEntity call for its collection,
\* series or file unit failed
RecordErrorStep ==
    /\ script # "api" /\ pc' # "off"
    /\ \/ /\ pc = "rec" /\ ~CapReached /\ i < Len(CurrentRecords)
          /\ i >= start_idx(checkpoint.file_number)
          /\ ( \/ extract_hierarchy_info(CurrentRecord).collection = None
               \/ extract_hierarchy_info(CurrentRecord).series = None )
       \/ /\ pc \in {"coll", "series", "fu"}
          /\ Len(calls') > Len(calls)
          /\ ~calls'[Len(calls')].ok

\* C11: a step in which a record fails with a record-level error creates
\* nothing more for the record, adds one to the error counter, and leaves the
\* loop at the next record.
C11_RecordStep ==
    RecordErrorStep =>
        /\ entities' = entities
        /\ nara_to_pi' = nara_to_pi
        /\ pc' = "rec" /\ i' = i + 1 /\ file_num' = file_num
        /\ stats'.errors = stats.errors + 1
C11_RecordErrorPolicy == [][C11_RecordStep]_vars
\* the same without the counter: what the code does do on such a step
RecordErrorSkipsRecord ==
    [][RecordErrorStep => /\ entities' = entities
                          /\ nara_to_pi' = nara_to_pi
                          /\ stats' = stats
                          /\ pc' = "rec" /\ i' = i + 1 /\ file_num' = file_num]_vars

\* C12: no invocation is ended by an error raised inside the import loop;
\* invocations end by completion, by interruption, or by a failure at startup.
C12_LoopContainsErrors ==
    \A n \in 1..Len(ended) : ended[n] # "failed_in_loop"

\* C13: the step that takes up a record without a collection ancestor or
\* without a series ancestor issues no call, creates nothing, leaves the
\* ledger and all counters as they are, and moves to the next record of the
\* same shard.
C13_MalformedStep ==
    ( /\ pc = "rec" /\ pc' # "off" /\ ~CapReached /\ i < Len(CurrentRecords)
      /\ i >= start_idx(checkpoint.file_number)
      /\ \/ extract_hierarchy_info(CurrentRecord).collection = None
         \/ extract_hierarchy_info(CurrentRecord).series = None )
    => /\ calls' = calls
       /\ entities' = entities
       /\ nara_to_pi' = nara_to_pi
       /\ stats' = stats
       /\ total_records_processed' = total_records_processed
       /\ pc' = "rec" /\ i' = i + 1 /\ file_num' = file_num
C13_MalformedRecordSkipped == [][C13_MalformedStep]_vars
\* record 101 (no series ancestor) was skipped and record 102 after it imported
C13_Witness ==
    /\ scenario = "malformed" /\ run = 1 /\ file_num = 1
    /\ Str(102) \in DOMAIN nara_to_pi
    /\ Str(101) \notin DOMAIN nara_to_pi
    /\ \A n \in 1..Len(calls) : calls[n].sid # Str(101) /\ calls[n].sid # Str(501)

\* C14: when the count of successfully processed records reaches a multiple
\* of the checkpoint interval, the loop goes on to save_checkpoint (after the
\* pause of import_limited), and the file that save_checkpoint completes holds
\* the current shard index, the index of the next record, the whole ledger and
\* the institution id.
C14_CheckpointStep ==
    /\ ( /\ total_records_processed' = total_records_processed + 1
         /\ total_records_processed' % CHECKPOINT_EVERY = 0 )
       => pc' \in {"sleep", "save_rec"}
    /\ ( /\ pc = "sleep" /\ pc' # "off"
         /\ total_records_processed % CHECKPOINT_EVERY = 0 )
       => pc' = "save_rec"
    /\ (pc = "save_rec" /\ pc' # "off")
       => /\ ckptFile' # <<>>
          /\ {"file_number", "record_index", "nara_to_pi", "institution_pi"}
                \subseteq DOMAIN ckptFile'[1]
          /\ ckptFile'[1].file_number = file_num
          /\ ckptFile'[1].record_index = i + 1
          /\ ckptFile'[1].nara_to_pi = nara_to_pi
          /\ ckptFile'[1].institution_pi = institution_pi
          /\ pc' = "rec" /\ i' = i + 1
C14_PeriodicFullCheckpoint == [][C14_CheckpointStep]_vars

\* C15: at every point (the process can be killed at any of them) the
\* checkpoint file is absent or a complete checkpoint, holding at least the
\* two indices, so that the next startup can load it.
C15_AtomicCheckpointWrite ==
    \/ ckptFile = <<>>
    \/ {"file_number", "record_index"} \subseteq DOMAIN ckptFile[1]

\* the step is an interruption of an invocation that is inside the import loop
InterruptInLoop ==
    /\ pc \notin {"off", "inst", "finish"}
    /\ pc' = "off"
    /\ ended' # ended
    /\ ended'[Len(ended')] \in {"interrupt", "at_checkpoint"}

\* C16: an interruption inside the import loop exits with a non-zero status
\* and leaves on disk the last checkpoint that was persisted: the step does
\* not change the file, and the file is not a partly written one.
C16_InterruptStep ==
    InterruptInLoop =>
        /\ exitCode' # 0
        /\ ckptFile' = ckptFile
        /\ ckptFile' # <<Torn>>
C16_InterruptPreservesCheckpoint == [][C16_InterruptStep]_vars

\* the last invocation that ended did complete normally
LastCompleted == ended # <<>> /\ ended[Len(ended)] = "done"

\* C17: the step of normal completion leaves no checkpoint file, and the
\* invocation started after a completed one begins with an empty ledger and no
\* institution id, and enters the loop at shard 1, record 0.
C17_CompletionStep ==
    /\ (pc = "finish" /\ pc' = "off" /\ exitCode' = 0) => ckptFile' = <<>>
    /\ (LastCompleted /\ pc = "off" /\ pc' = "inst")
          => /\ nara_to_pi' = <<>>
             /\ institution_pi' = None
             /\ ckptFile' = <<>>
    /\ (LastCompleted /\ pc = "inst" /\ pc' = "file")
          => /\ file_num' = 1
             /\ start_record_index' = 0
             /\ nara_to_pi' = <<>>
C17_CompletionRemovesCheckpoint == [][C17_CompletionStep]_vars
\* an invocation after a completed one has entered the loop
C17_Witness ==
    /\ ended = <<"done">> /\ run = 2 /\ pc = "file"
    /\ file_num = 1 /\ start_record_index = 0
    /\ nara_to_pi = <<>> /\ ckptFile = <<>>
    /\ Cardinality(Creates) > 2

\* the cursor a checkpoint file holds; shard 1, record 0 when there is none
CursorOf(file) ==
    IF file = <<>> THEN <<1, 0>>
    ELSE <<file[1].file_number, file[1].record_index>>
\* the cursor the running invocation loaded
LoadedCursor == <<checkpoint.file_number, checkpoint.record_index>>
\* the loop is at a record that lies before the loaded cursor
BeforeLoadedCursor == file_num = LoadedCursor[1] /\ i < LoadedCursor[2]

\* C18: the loop is entered at the shard of the checkpoint file's cursor
\* (shard 1 without a file, and then with an empty ledger); a record of that
\* shard below the cursor's record index is passed without any call or
\* change; and no other record that has both ancestors is passed: records of
\* that shard from the index on, and all records of later shards, are imported.
C18_ResumeStep ==
    /\ (pc = "inst" /\ pc' = "file")
          => /\ <<file_num', start_record_index'>> = CursorOf(ckptFile)
             /\ LoadedCursor' = CursorOf(ckptFile)
             /\ ckptFile = <<>> => nara_to_pi' = <<>>
    /\ (pc = "rec" /\ pc' # "off" /\ ~CapReached /\ i < Len(CurrentRecords))
          => IF BeforeLoadedCursor
             THEN /\ pc' = "rec" /\ i' = i + 1 /\ file_num' = file_num
                  /\ calls' = calls /\ entities' = entities
                  /\ nara_to_pi' = nara_to_pi /\ stats' = stats
                  /\ total_records_processed' = total_records_processed
             ELSE \/ pc' \in {"coll", "series", "fu"} /\ i' = i
                  \/ extract_hierarchy_info(CurrentRecord).collection = None
                  \/ extract_hierarchy_info(CurrentRecord).series = None
    /\ (pc \in {"rec", "coll", "series", "fu", "do", "sleep", "save_rec", "save_file"})
          => file_num >= LoadedCursor[1]
C18_ResumeAtCursor == [][C18_ResumeStep]_vars
\* a resumed invocation passed the records below its cursor and is importing
\* the record at the cursor
C18_Witness ==
    /\ run = 2
    /\ pc \in {"coll", "series", "fu"}
    /\ LoadedCursor[2] > 0
    /\ <<file_num, i>> = LoadedCursor
    /\ LoadedCursor = CursorOf(ckptFile)

(***************************************************************************)
(* C19: successive checkpoints                                             *)
(***************************************************************************)
\* lexicographic order on cursors <<shard, record index>>
CursorLeq(a, b) == a[1] < b[1] \/ (a[1] = b[1] /\ a[2] <= b[2])
\* this step leaves a completely written checkpoint document in the file
WritesCheckpoint ==
    /\ ckptFile' # ckptFile
    /\ ckptFile' # <<>>
    /\ ckptFile' # <<Torn>>
CursorStep ==
    WritesCheckpoint =>
        /\ lastCursor' = CursorOf(ckptFile')
        /\ lastCursor # <<>> => CursorLeq(lastCursor, lastCursor')

\* C19: whenever a checkpoint is written, its cursor <<shard, record index>>
\* is not lexicographically below the cursor of the checkpoint written before
\* it, be that one written by the same invocation or by an interrupted
\* earlier one that this invocation resumed from.
C19_CursorNeverDecreases == [][CursorStep]_vars

\* a resumed invocation has written a checkpoint beyond the cursor it loaded
C19_Witness ==
    /\ run = 2
    /\ pc \in {"file", "rec", "coll", "series", "fu", "do", "sleep"}
    /\ ckptFile # <<>>
    /\ ckptFile # <<Torn>>
    /\ LoadedCursor # <<1, 0>>
    /\ lastCursor = CursorOf(ckptFile)
    /\ lastCursor # LoadedCursor
    /\ CursorLeq(LoadedCursor, lastCursor)

(***************************************************************************)
(* C20: what a resumed invocation creates a second time                    *)
(***************************************************************************)
\* the cursor the running invocation resumes from: the one it loaded, or,
\* before import_full_collection has loaded it, the last one persisted
ResumeCursor ==
    IF checkpoint # <<>> THEN LoadedCursor
    ELSE IF lastCursor = <<>> THEN <<1, 0>> ELSE lastCursor
\* invocation r and all later ones before the running one were cut short
ResumedSince(r) == \A n \in r..(run - 1) : ended[n] # "done"
\* call d creates again what call c of an earlier, unfinished invocation created
CreatesAgain(c, d) ==
    /\ c.op = "create" /\ c.ok
    /\ d.op = "create" /\ d.ok
    /\ c.level = d.level /\ c.sid = d.sid
    /\ c.run < d.run
    /\ ResumedSince(c.run)
DuplicateStep ==
    \A n \in (Len(calls) + 1)..Len(calls') :
        \A m \in 1..Len(calls) :
            CreatesAgain(calls[m], calls'[n])
                => CursorLeq(ResumeCursor, calls[m].at)

\* C20: when an invocation that resumes an interrupted one creates an entity
\* that the interrupted one had already created, the earlier creation was
\* made at a record at or after the cursor the resume starts from: duplicates
\* are confined to the records between the last persisted cursor and the
\* interruption point.
C20_DuplicatesConfined == [][DuplicateStep]_vars

(***************************************************************************)
(* C21: an operator stop during the delay between records                  *)
(***************************************************************************)
\* this step is an operator stop that reaches the process in time.sleep
StopInDelay == pc = "sleep" /\ stops' # stops
\* calls made by invocation r
CallsOfRun(r) == {n \in 1..Len(calls) : calls[n].run = r}
DelayStopStep ==
    /\ StopInDelay =>
        /\ pc' = "off"
        /\ exitCode' = 1
        /\ ended' = Append(ended, "interrupt")
        /\ calls' = calls
        /\ entities' = entities
        /\ ckptFile' = ckptFile
    /\ (pc = "off" /\ run' = run) => calls' = calls

\* C21: an operator stop that arrives during the delay between two records
\* ends the invocation in that very step with a non-zero exit status: the
\* record loop's handler does not take it, nothing is called or written, and
\* an invocation that has ended makes no further call.
C21_DelayIsInterruptible == [][DelayStopStep]_vars

\* import_limited was stopped in the delay after its first record
C21_Witness ==
    /\ script = "limited"
    /\ stops = <<"sleep">>
    /\ pc = "off"
    /\ exitCode = 1
    /\ ended = <<"interrupt">>
    /\ \E n \in CallsOfRun(1) :
        calls[n].op = "create" /\ calls[n].level = "fileunit" /\ calls[n].ok

(***************************************************************************)
(* C22: the end-to-end scenario                                            *)
(***************************************************************************)
\* the createEntity calls issued for entities of a level
CreateCalls(level) ==
    {n \in 1..Len(calls) : calls[n].op = "create" /\ calls[n].level = level}
\* a first invocation over the feed "pair" has completed without any fault
PairRunCompleted ==
    /\ scenario = "pair"
    /\ script \in {"limited", "full"}
    /\ pc = "off"
    /\ ended = <<"done">>
    /\ events = 0

\* C22: over one shard of two records that share their collection and their
\* series, the first with one digital object and the second with none, a fresh
\* run without faults has issued exactly 1 institution, 1 collection, 1 series,
\* 2 file-unit and 1 digital-object createEntity calls, and ends with the
\* counters collections 1, series 1, file units 2, digital objects 1.
C22_EndToEndCounts ==
    PairRunCompleted =>
        /\ Cardinality(CreateCalls("institution")) = 1
        /\ Cardinality(CreateCalls("collection")) = 1
        /\ Cardinality(CreateCalls("series")) = 1
        /\ Cardinality(CreateCalls("fileunit")) = 2
        /\ Cardinality(CreateCalls("digitalobject")) = 1
        /\ stats.collections_created = 1
        /\ stats.series_created = 1
        /\ stats.fileunits_created = 2
        /\ stats.digitalobjects_created = 1

\* the run over "pair" has completed and the store holds its six entities
C22_Witness == PairRunCompleted /\ Len(entities) = 7

(***************************************************************************)
(* C23: the adapter's error classes                                        *)
(***************************************************************************)
\* an adapter operation has just been called
AdapterCalled == script = "adapter" /\ apiCalls # <<>>
\* the error classes of the adapter
AdapterErrors ==
    {"ArkeValidationError", "ArkeNotFoundError", "ArkeConflictError", "ArkeAPIError"}

\* C23: a network operation of the adapter that fails raises one of the
\* adapter's error classes, and the class follows the answer: Validation for
\* status 400, NotFound for 404, Conflict for 409, the generic API error for
\* every other status of 400 or more and for a transport fault.
C23_ClassifiedErrors ==
    (AdapterCalled /\ result.op \in RequestOps \cup TransferOps) =>
        /\ result.raised \in AdapterErrors \cup {"none"}
        /\ result.fault => result.raised = "ArkeAPIError"
        /\ (~result.fault /\ result.status >= 400) => result.raised = ErrorClass(result.status)

(***************************************************************************)
(* C24: probe (entity_exists)                                              *)
(***************************************************************************)
\* the response the last call got
LastResponse == [fault |-> result.fault, status |-> result.status, json |-> result.json]
\* the read of the store id succeeded / failed with NotFound
ReadSucceeds == request(LastResponse) = {"ok"}
ReadNotFound == request(LastResponse) = {"ArkeNotFoundError"}

\* C24: entity_exists returns true when the read of the store id succeeds,
\* returns false when the read fails with NotFound, and in every other case
\* raises the error the read raised.
C24_ProbeClassifiesNotFound ==
    (AdapterCalled /\ result.op = "probe") =>
        /\ ReadSucceeds => (result.raised = "none" /\ result.returned)
        /\ ReadNotFound => (result.raised = "none" /\ ~result.returned)
        /\ (~ReadSucceeds /\ ~ReadNotFound) =>
                /\ result.raised # "none"
                /\ result.raised \in request(LastResponse)

\* a probe of an absent entity has returned false
C24_Witness ==
    /\ AdapterCalled
    /\ result.op = "probe"
    /\ ReadNotFound
    /\ result.raised = "none"
    /\ ~result.returned

(***************************************************************************)
(* C25, C26: the institution and the anchor entity                         *)
(***************************************************************************)
\* the calls this step adds to the log
NewCalls == {n \in 1..Len(calls') : n > Len(calls)}
\* this step is a call of import_institution in which the read of the anchor
\* entity failed / succeeded
AnchorLookupFails ==
    pc = "inst" /\ \E n \in NewCalls : calls'[n].op = "arke" /\ ~calls'[n].ok
AnchorLookupSucceeds ==
    pc = "inst" /\ \E n \in NewCalls : calls'[n].op = "arke" /\ calls'[n].ok
\* the store ids of the children of entity p
ChildrenOf(store, p) == {c \in 1..Len(store) : store[c].parent = p}

AnchorUnavailableStep ==
    AnchorLookupFails =>
        /\ \E n \in NewCalls :
            /\ calls'[n].op = "create"
            /\ calls'[n].parent = None
            /\ \A m \in NewCalls : calls'[m].op = "create" => m = n
            /\ calls'[n].ok =>
                /\ Len(entities') = Len(entities) + 1
                /\ institution_pi' = Len(entities')
                /\ entities'[institution_pi'].level = "institution"
                /\ entities'[institution_pi'].parent = None
                /\ result' = institution_pi'
                /\ stats'.institutions_created = stats.institutions_created + 1
        /\ pc' = "api"

\* C25: when the read of the anchor entity fails, import_institution still
\* issues exactly one createEntity call, with no parent, the store id that
\* call returns is recorded as the institution id and returned, and the call
\* of import_institution does not raise.
C25_AnchorUnavailable == [][AnchorUnavailableStep]_vars

\* an institution without parent was created after a failed anchor read
C25_Witness ==
    /\ pc = "api"
    /\ \E n \in 1..Len(calls) : calls[n].op = "arke" /\ ~calls[n].ok
    /\ institution_pi # None
    /\ entities[institution_pi].parent = None
    /\ result = institution_pi

AnchorAvailableStep ==
    (AnchorLookupSucceeds /\ \E n \in NewCalls : calls'[n].op = "create" /\ calls'[n].ok) =>
        /\ \A n \in NewCalls : calls'[n].op = "create" => calls'[n].parent = ArkePi
        /\ institution_pi' \notin ChildrenOf(entities, ArkePi)
        /\ institution_pi' \in ChildrenOf(entities', ArkePi)
        /\ result' = institution_pi'

RetrievalFails == pc = "file" /\ events' = events + 1
\* the positions of main() inside the two loops
InLoops == {"file", "rec", "coll", "series", "fu", "do", "sleep", "save_rec", "save_file"}
ShardSkipStep ==
    /\ RetrievalFails =>
        /\ pc' = "file"
        /\ file_num' = file_num + 1
        /\ calls' = calls
        /\ entities' = entities
        /\ ckptFile' = ckptFile
        /\ nara_to_pi' = nara_to_pi
        /\ total_records_processed' = total_records_processed
        /\ ended' = ended
        /\ exitCode' = exitCode
    /\ (pc \in InLoops /\ pc' \in InLoops) => file_num' >= file_num

\* C27: when the retrieval of a shard fails, the invocation goes on, in that
\* step, to the next shard, without having made a call, created an entity,
\* counted a record or ended; and an invocation never goes back to an earlier
\* shard, so the failed shard is not attempted again.
C27_FailedShardSkipped == [][ShardSkipStep]_vars

\* the first invocation is at shard 2 because shard 1 could not be retrieved
C27_Witness ==
    /\ script \in {"limited", "full"}
    /\ pc = "file"
    /\ run = 1
    /\ file_num = 2
    /\ events = 1
    /\ ckptFile = <<>>
    /\ nara_to_pi = <<>>

(***************************************************************************)
(* C28: the store is unreachable at startup                                *)
(***************************************************************************)
\* this step starts an invocation whose health check fails
HealthCheckFails ==
    pc = "off" /\ \E n \in NewCalls : calls'[n].op = "health" /\ ~calls'[n].ok
StartupFailureStep ==
    HealthCheckFails =>
        /\ pc' = "off"
        /\ exitCode' = 1
        /\ ended' = Append(ended, "failed")
        /\ \A n \in NewCalls : calls'[n].op = "health"
        /\ entities' = entities
        /\ ckptFile' = ckptFile
        /\ lastCursor' = lastCursor

\* C28: an invocation whose health check fails ends in that step with exit
\* status 1: it has issued no call but the health check, created nothing, and
\* the checkpoint file is as it was, neither written nor deleted.
C28_StartupFailure == [][StartupFailureStep]_vars

\* the first invocation found the store unreachable and has ended
C28_Witness ==
    /\ script \in {"limited", "full"}
    /\ pc = "off"
    /\ run = 1
    /\ exitCode = 1
    /\ ended = <<"failed">>
    /\ Len(calls) = 1
    /\ calls[1].op = "health"
    /\ ~calls[1].ok
    /\ Len(entities) = 1
    /\ ckptFile = <<>>

(***************************************************************************)
(* C29: work committed before a record fails                               *)
(***************************************************************************)
\* the calls of the running invocation that failed below the ancestors' levels:
\* the record they belong to failed part-way
PartWayFailures ==
    {n \in CallsOfRun(run) :
        /\ ~calls[n].ok
        /\ calls[n].op \in {"upload", "create"}
        /\ calls[n].level \in {"series", "fileunit"}}
\* the ancestors the running invocation created before call n
CommittedBefore(n) ==
    {m \in CallsOfRun(run) :
        /\ m < n
        /\ calls[m].op = "create" /\ calls[m].ok
        /\ calls[m].level \in {"collection", "series"}}
\* call j asks the store again for what call m created
AsksAgain(m, j) ==
    /\ j > m
    /\ calls[j].op \in {"upload", "create"}
    /\ calls[j].level = calls[m].level
    /\ calls[j].sid = calls[m].sid

\* C29: while an invocation runs, every collection and series it created
\* before a record failed part-way is still in the ledger under its source id,
\* with the store id of the entity created for it, and the invocation has
\* issued no further upload or createEntity call for that source id: later
\* records with the same ancestors reuse them.
C29_CommittedWorkKept ==
    (pc # "off" /\ script \in {"limited", "full", "api"}) =>
        \A n \in PartWayFailures :
            \A m \in CommittedBefore(n) :
                /\ calls[m].sid \in DOMAIN nara_to_pi
                /\ nara_to_pi[calls[m].sid] \in 1..Len(entities)
                /\ entities[nara_to_pi[calls[m].sid]].level = calls[m].level
                /\ entities[nara_to_pi[calls[m].sid]].sid = calls[m].sid
                /\ \A j \in CallsOfRun(run) : ~AsksAgain(m, j)

\* after the file unit of a record failed, the file unit of a later record
\* was created under the series created before the failure
C29_Witness ==
    /\ pc # "off"
    /\ \E n \in PartWayFailures :
        /\ calls[n].level = "fileunit"
        /\ \E m \in CommittedBefore(n) :
            /\ calls[m].level = "series"
            /\ \E j \in CallsOfRun(run) :
                /\ j > n
                /\ calls[j].op = "create" /\ calls[j].ok
                /\ calls[j].level = "fileunit"
                /\ calls[j].sid # calls[n].sid
                /\ calls[j].pkey = calls[m].sid
                /\ calls[j].parent = nara_to_pi[calls[m].sid]

(***************************************************************************)
(* C30: what import_record returns                                         *)
(***************************************************************************)
\* this step is the return of import_record to a client of the importer:
\* the last statement of import_fileunit was reached and nothing was raised
ImportRecordReturns ==
    /\ script = "api"
    /\ pc \in {"fu", "do"}
    /\ pc' = "api"
    /\ \A n \in NewCalls : calls'[n].level = "fileunit" => calls'[n].ok
ReturnStep ==
    ImportRecordReturns =>
        LET nara_id == Str(CurrentRecord.naId) IN
        /\ nara_id \in DOMAIN nara_to_pi'
        /\ result' = nara_to_pi'[nara_id]
        /\ result' \in 1..Len(entities')
        /\ entities'[result'].level = "fileunit"
        /\ entities'[result'].sid = nara_id
        /\ \E n \in 1..Len(calls') :
            /\ calls'[n].op = "create" /\ calls'[n].ok
            /\ calls'[n].level = "fileunit"
            /\ calls'[n].sid = nara_id

\* C30: when import_record returns, the value it returns is the store id the
\* ledger holds for the record's file-unit source id, and that id is the id of
\* the store entity a successful createEntity call made for that file unit,
\* so the store can be read at it.
C30_ReturnsFileUnitId == [][ReturnStep]_vars

\* import_record has returned for the same record twice, the second time
\* from the ledger
C30_Witness ==
    /\ script = "api"
    /\ pc = "api"
    /\ apiCalls = <<"import_record", "import_record">>
    /\ events = 0
    /\ Cardinality(CreateCalls("fileunit")) = 1
    /\ result \in 1..Len(entities)
    /\ entities[result].level = "fileunit"
    /\ result = Get(nara_to_pi, entities[result].sid)

(***************************************************************************)
(* C31: digest determinism                                                 *)
(***************************************************************************)
\* the verifications of the stream that have returned
Verified == IF script = "hash" /\ apiCalls # <<>> THEN result.returned ELSE <<>>

\* C31: every verification of a byte stream returns the length of the stream
\* as byte count and the digest of the whole stream, however the stream was
\* split into chunks: two verifications of the same stream return the same
\* digest and the same byte count.
C31_DigestDeterminism ==
    \A a, b \in 1..Len(Verified) :
        /\ Verified[a] = Verified[b]
        /\ Verified[a][2] = Len(result.stream)
        /\ Verified[a][1] = hexdigest(Absorb(NewHasher, result.stream))

\* a stream of several bytes was verified twice, in chunks of different sizes
C31_Witness ==
    /\ script = "hash"
    /\ pc = "hash"
    /\ Len(Verified) = 2
    /\ Len(result.stream) = MaxStreamLen
    /\ result.chunk_size = 1
    /\ Verified[1] = Verified[2]

(***************************************************************************)
(* C32: a record whose file unit is already in the ledger                  *)
(***************************************************************************)
\* import_fileunit is about to run for a file unit that is in the ledger
FileUnitMapped == pc = "fu" /\ Str(CurrentRecord.naId) \in DOMAIN nara_to_pi
\* the child assets of the record at hand that are not in the ledger
UnmappedAssets ==
    {n \in 1..Len(CurrentRecord.digitalObjects) :
        CurrentRecord.digitalObjects[n].objectId \notin DOMAIN nara_to_pi}
FileUnitSkipStep ==
    FileUnitMapped =>
        /\ calls' = calls
        /\ entities' = entities
        /\ UnmappedAssets # {} => pc' = "do"

\* C32: import_fileunit for a file unit that is already in the ledger issues
\* no upload and no createEntity call for it, and when the record has child
\* assets that are not in the ledger it goes on to the child assets.
C32_SkipToChildAssets == [][FileUnitSkipStep]_vars

(***************************************************************************)
(* C33: page numbers                                                       *)
(***************************************************************************)
\* the calls made for child assets
AssetCalls == {n \in 1..Len(calls) : calls[n].level = "digitalobject"}
\* the asset descriptors of the record a call was made for
AssetsAt(c) == FileRecords(scenario, c.at[1])[c.at[2] + 1].digitalObjects

AncestorLevel(level) ==
    IF level = "collection" THEN "institution"
    ELSE IF level = "series" THEN "collection"
    ELSE IF level = "fileunit" THEN "series"
    ELSE "fileunit"
\* the store id the importer holds for the immediate ancestor of call c
AncestorId(c) ==
    IF c.level = "collection" THEN institution_pi ELSE Get(nara_to_pi, c.pkey)
\* the create calls a step makes below the institution
NewChildCreates ==
    {n \in NewCalls : calls'[n].op = "create" /\ calls'[n].level # "institution"}
ParentStep ==
    \A n \in NewChildCreates :
        LET c == calls'[n] IN
        /\ c.parent # None
        /\ c.parent = AncestorId(c)
        \* the ancestor is in the store before the call
        /\ c.parent \in 1..Len(entities)
        /\ entities[c.parent].level = AncestorLevel(c.level)
        /\ entities[c.parent].sid = c.pkey

\* C34: in the import of a record, every create call for a collection, series,
\* file unit or digital object carries a parent that is not empty and is the
\* store id the importer holds at that moment for the immediate ancestor
\* (institution, collection, series, file unit), an entity of that level and
\* source id that was in the store before the call.
C34_ParentIsAncestor == [][ParentStep]_vars

\* all four levels were created, and in a resumed run a file unit was created
\* under a series that an earlier run had created
C34_Witness ==
    /\ \A level \in {"collection", "series", "fileunit", "digitalobject"} :
        \E n \in 1..Len(calls) :
            calls[n].op = "create" /\ calls[n].level = level /\ calls[n].ok
    /\ \E n \in 1..Len(calls) :
        /\ calls[n].op = "create" /\ calls[n].level = "fileunit" /\ calls[n].run = 2
        /\ calls[n].parent # None
        /\ entities[calls[n].parent].run = 1
        /\ entities[calls[n].parent].level = "series"

(***************************************************************************)
(* C35: the counters, the create calls and the ledger                      *)
(***************************************************************************)
CountedLevels == {"collection", "series", "fileunit", "digitalobject"}
\* self.stats["<level>s_created"]
CreatedCounter(level) ==
    IF level = "institution" THEN stats.institutions_created
    ELSE IF level = "collection" THEN stats.collections_created
    ELSE IF level = "series" THEN stats.series_created
    ELSE IF level = "fileunit" THEN stats.fileunits_created
    ELSE stats.digitalobjects_created
\* the createEntity calls of the running invocation that the store accepted
AcceptedCreates(level) ==
    {n \in CreateCallsOfRun : calls[n].level = level /\ calls[n].ok}
\* the ledger keys added since the importer was constructed
AddedKeys == DOMAIN nara_to_pi \ DOMAIN SnapshotLedger

\* C35: while an importer lives (no dry run), each created counter is the
\* number of createEntity calls of that level the store has accepted in this
\* process, the number of ledger entries added since the importer was built is
\* the sum of the four counters below the institution, and every added entry
\* has an accepted createEntity call of this process for its key, whose entity
\* it maps the key to.
C35_CountersMatchCreates ==
    pc # "off" =>
        /\ \A level \in CountedLevels \cup {"institution"} :
            CreatedCounter(level) = Cardinality(AcceptedCreates(level))
        /\ Cardinality(AddedKeys) =
              stats.collections_created + stats.series_created
              + stats.fileunits_created + stats.digitalobjects_created
        /\ \A key \in AddedKeys :
            /\ \E n \in CreateCallsOfRun :
                calls[n].sid = key /\ calls[n].ok /\ calls[n].level \in CountedLevels
            /\ nara_to_pi[key] \in 1..Len(entities)
            /\ entities[nara_to_pi[key]].sid = key

\* a resumed run that loaded a ledger has added three entries to it: a
\* series, a file unit and the one of its two assets that passed verification
C35_Witness ==
    /\ pc # "off" /\ run = 2
    /\ SnapshotLedger # <<>>
    /\ Cardinality(AddedKeys) = 3
    /\ stats.collections_created = 0 /\ stats.series_created = 1
    /\ stats.fileunits_created = 1 /\ stats.digitalobjects_created = 1
    /\ stats.errors > 0

(***************************************************************************)
(* C36: a child asset whose verification fails                             *)
(***************************************************************************)
\* the failed verifications a step makes
NewFailedVerifications ==
    {n \in NewCalls : calls'[n].op = "verify" /\ ~calls'[n].ok}
VerificationFailureStep ==
    \A n \in NewFailedVerifications :
        \* the failed verification is the only call of the step
        /\ NewCalls = {n}
        /\ entities' = entities
        /\ nara_to_pi' = nara_to_pi
        /\ calls'[n].sid \notin DOMAIN nara_to_pi'
        /\ institution_pi' = institution_pi
        /\ stats'.errors > stats.errors
        /\ stats' = [stats EXCEPT !.errors = stats'.errors]

\* C36: the import of a child asset whose verification fails issues no upload
\* and no createEntity call, adds no entity to the store and no entry to the
\* ledger, and changes no counter but the error counter, which grows:
\* digitalobjects_created and bytes_hashed keep their values.
C36_FailedVerificationFrame == [][VerificationFailureStep]_vars

\* the third of five assets has failed verification after two were created:
\* it is not in the ledger and the counters stand at two assets, two bytes
C36_Witness ==
    /\ scenario = "five" /\ pc = "do" /\ k = 4 /\ run = 1
    /\ \E n \in AssetCalls :
        /\ calls[n].op = "verify" /\ ~calls[n].ok /\ calls[n].sid = Str(503)
        /\ n = Len(calls)
    /\ Str(503) \notin DOMAIN nara_to_pi
    /\ stats.digitalobjects_created = 2
    /\ stats.bytes_hashed = 2
    /\ stats.errors > 0

(***************************************************************************)
(* C37: the cursor and the records that failed                             *)
(***************************************************************************)
\* cursor a lies strictly before cursor b
CursorBefore(a, b) == ~CursorLeq(b, a)
\* a call whose failure makes import_record raise: the upload or the create
\* of a collection, a series or a file unit
FailsRecord(c) ==
    /\ ~c.ok
    /\ c.op \in {"upload", "create"}
    /\ c.level \in {"collection", "series", "fileunit"}
\* the calls made for a record or for its assets
RecordCalls(log) == {n \in 1..Len(log) : log[n].level \in CountedLevels}
FailedRecordStep ==
    \* a checkpoint that is written points beyond the record the loop is at,
    \* beyond every record without ancestors up to there, and beyond every
    \* record of this invocation whose import raised
    /\ WritesCheckpoint =>
        /\ CursorBefore(<<file_num, i>>, CursorOf(ckptFile'))
        /\ \A j \in 0..i :
            (j < Len(CurrentRecords) /\ MissingAncestor(CurrentRecords[j + 1]))
                => CursorBefore(<<file_num, j>>, CursorOf(ckptFile'))
        /\ \A n \in RecordCalls(calls) :
            (calls[n].run = run /\ FailsRecord(calls[n]))
                => CursorBefore(calls[n].at, CursorOf(ckptFile'))
    \* the invocation that loaded a cursor makes no call for a record before it
    /\ \A n \in NewCalls :
        calls'[n].level \in CountedLevels
            => /\ CursorLeq(LoadedCursor, calls'[n].at)
               /\ CursorLeq(LoadedCursor, <<file_num, i>>)
    \* and passes the records before it untouched
    /\ (pc = "rec" /\ ~CapReached /\ i < Len(CurrentRecords) /\ BeforeLoadedCursor)
          => /\ pc' \in {"rec", "off"}
             /\ calls' = calls
             /\ pc' = "rec" => (stats' = stats /\ nara_to_pi' = nara_to_pi)

\* C37: a checkpoint that either driver writes has a cursor beyond the record
\* the loop is at and so beyond every earlier record, those whose import
\* failed included; and the invocation that resumes from a cursor makes no
\* call for a record located before it: a failed record before the cursor is
\* not attempted again.
C37_CursorPassesFailedRecords == [][FailedRecordStep]_vars

\* shard 1 held two records without ancestors and one good record; the run
\* resumed at the cursor <<2, 0>> of the end of shard 1 has imported record
\* 105 of shard 2 and made no call for a record of shard 1
C37_Witness ==
    /\ scenario = "malformed" /\ run = 2
    /\ pc \in {"rec", "sleep", "save_rec"}
    /\ LoadedCursor = <<2, 0>>
    /\ MissingAncestor(FileRecords(scenario, 1)[1])
    /\ \E n \in CallsOfRun(2) : calls[n].op = "create" /\ calls[n].sid = Str(105)
    /\ \A n \in CallsOfRun(2) : calls[n].level \in CountedLevels => calls[n].at[1] = 2

(***************************************************************************)
(* C38: import_limited, the delay and the periodic checkpoint              *)
(***************************************************************************)
\* import_record has returned in this step
RecordReturns == total_records_processed' = total_records_processed + 1
\* a periodic checkpoint is due for the record the loop is at
CheckpointDue == total_records_processed % CHECKPOINT_EVERY = 0
\* the file unit of the record the loop is at is in the store
FileUnitStored ==
    \E p \in 1..Len(entities) :
        entities[p].level = "fileunit" /\ entities[p].sid = Str(CurrentRecord.naId)
DelayedCheckpointStep ==
    script = "limited" =>
        \* the record is counted, the delay begins, the file is not touched
        /\ RecordReturns => (pc' = "sleep" /\ ckptFile' = ckptFile /\ FileUnitStored')
        \* the write begins when the delay has completed, and only then
        /\ (pc # "sleep" /\ pc' = "save_rec") => FALSE
        /\ (pc = "sleep" /\ pc' # "off")
              => IF CheckpointDue
                 THEN pc' = "save_rec" /\ i' = i
                 ELSE pc' = "rec" /\ ckptFile' = ckptFile
        /\ (pc = "save_rec" /\ pc' # "off")
              => CursorOf(ckptFile') = <<file_num, i + 1>>
        \* a stop during the delay: the file keeps what it held, which does
        \* not cover the record, whose file unit is in the store
        /\ (StopInDelay /\ CheckpointDue)
              => /\ pc' = "off"
                 /\ ckptFile' = ckptFile
                 /\ ckptFile # <<Torn>>
                 /\ CursorLeq(CursorOf(ckptFile), <<file_num, i>>)
                 /\ FileUnitStored
                 /\ entities' = entities

\* C38: in import_limited a record that has been imported is followed by the
\* delay, during which the checkpoint file is as it was; the checkpoint due
\* after every CHECKPOINT_EVERY-th imported record is opened for writing only
\* when the delay has completed; and a stop during that delay ends the run
\* with the file as it was (absent, or with a cursor not beyond the record)
\* although the record's file unit is in the store.
C38_CheckpointAfterDelay == [][DelayedCheckpointStep]_vars

\* the run was stopped in the delay after its second record, when a checkpoint
\* was due: there is no checkpoint file, and both file units are in the store
C38_Witness ==
    /\ script = "limited" /\ scenario = "pair"
    /\ stops = <<"sleep">> /\ pc = "off" /\ ended = <<"interrupt">>
    /\ ckptFile = <<>>
    /\ Cardinality({p \in 1..Len(entities) : entities[p].level = "fileunit"})
          = CHECKPOINT_EVERY

(***************************************************************************)
(* C39: the dry run                                                        *)
(***************************************************************************)
\* the source id an import step is about, at the level the importer is at
VisitedKey ==
    IF pc = "coll" THEN Str(extract_hierarchy_info(CurrentRecord).collection)
    ELSE IF pc = "series" THEN Str(extract_hierarchy_info(CurrentRecord).series)
    ELSE Str(CurrentRecord.naId)
\* the client has called import_digitalobject in this step
AssetCalled ==
    /\ apiCalls' # apiCalls
    /\ apiCalls'[Len(apiCalls')] = "import_digitalobject"
DryRunStep ==
    dry_run =>
        \* no upload, no anchor read, no create, no verification: no call at all
        /\ calls' = <<>>
        /\ Len(entities') = 1
        \* no counter changes
        /\ stats' = ZeroStats
        \* what the ledger holds, it keeps
        /\ \A key \in DOMAIN nara_to_pi :
            key \in DOMAIN nara_to_pi' /\ nara_to_pi'[key] = nara_to_pi[key]
        \* an import operation enters the id it visits
        /\ pc \in {"coll", "series", "fu"}
              => /\ VisitedKey \in DOMAIN nara_to_pi'
                 /\ nara_to_pi'[VisitedKey] = DryRunPi
                 /\ DOMAIN nara_to_pi' \subseteq DOMAIN nara_to_pi \cup {VisitedKey}
        /\ AssetCalled
              => /\ LET key == CurrentRecord'.digitalObjects[k'].objectId IN
                    /\ key \in DOMAIN nara_to_pi'
                    /\ nara_to_pi'[key] = DryRunPi
                    /\ DOMAIN nara_to_pi' \subseteq DOMAIN nara_to_pi \cup {key}
                 /\ result' = DryRunPi
        /\ pc = "inst" => (institution_pi' = DryRunPi /\ nara_to_pi' = nara_to_pi)
        \* the import of an id that is in the ledger is skipped
        /\ FileUnitMapped => (nara_to_pi' = nara_to_pi /\ result' = DryRunPi)
        /\ (pc = "api" /\ pc' \in {"coll", "series"})
              => VisitedKey' \notin DOMAIN nara_to_pi
        /\ (pc = "inst" /\ institution_pi # None) => institution_pi' = institution_pi

\* C39: an importer built for a dry run issues no call at all (no upload, no
\* anchor read, no createEntity, no verification), adds nothing to the store
\* and changes no counter; each import operation enters the source id it
\* visits in the ledger with the dry-run marker (import_institution sets the
\* institution id to the marker), keeps the entries the ledger has, and
\* passes an id that is in the ledger without recording anything.
C39_DryRunTouchesNothing == [][DryRunStep]_vars

\* a dry run has imported the institution and a record, whose import was then
\* repeated and skipped: the collection, the series and the file unit are in
\* the ledger, no asset is, and nothing was called or counted
C39_Witness ==
    /\ dry_run /\ pc = "api"
    /\ apiCalls = <<"import_institution", "import_record", "import_record">>
    /\ scenario = "pair" /\ file_num = 1 /\ i = 0
    /\ institution_pi = DryRunPi
    /\ DOMAIN nara_to_pi = {Str(7), Str(11), Str(101)}
    /\ result = DryRunPi
    /\ calls = <<>> /\ stats = ZeroStats /\ Len(entities) = 1

(***************************************************************************)
(* C40: identifiers that collide across levels                             *)
(***************************************************************************)
\* the level of the entity the ledger records for key
RecordedLevel(key) == entities[nara_to_pi[key]].level
\* key is recorded for an entity of another level than `level`
RecordedElsewhere(key, level) ==
    key \in DOMAIN nara_to_pi /\ RecordedLevel(key) # level
\* the record import_record is called with in this step
CalledRecord == FileRecords(scenario, file_num')[i' + 1]
CollisionStep ==
    \* no call is ever made for an identifier that the ledger holds
    /\ \A n \in NewCalls :
        calls'[n].level \in CountedLevels => calls'[n].sid \notin DOMAIN nara_to_pi
    \* import_record passes a collection and a series recorded elsewhere
    /\ (pc = "api" /\ pc' # "api" /\ apiCalls'[Len(apiCalls')] = "import_record")
          => LET h == extract_hierarchy_info(CalledRecord) IN
             /\ RecordedElsewhere(Str(h.collection), "collection") => pc' # "coll"
             /\ (RecordedElsewhere(Str(h.collection), "collection")
                    /\ RecordedElsewhere(Str(h.series), "series")) => pc' = "fu"
    /\ (pc = "coll" /\ pc' # "api"
          /\ RecordedElsewhere(Str(extract_hierarchy_info(CurrentRecord).series), "series"))
          => pc' = "fu"
    \* import_fileunit returns the id recorded elsewhere, creating nothing
    /\ (pc = "fu" /\ RecordedElsewhere(Str(CurrentRecord.naId), "fileunit"))
          => /\ calls' = calls /\ entities' = entities /\ nara_to_pi' = nara_to_pi
             /\ stats' = stats
             /\ pc' = "api"
             /\ result' = nara_to_pi[Str(CurrentRecord.naId)]
    \* import_digitalobject creates nothing; the loop goes on
    /\ (pc = "do" /\ RecordedElsewhere(CurrentRecord.digitalObjects[k].objectId,
                                       "digitalobject"))
          => /\ calls' = calls /\ entities' = entities /\ nara_to_pi' = nara_to_pi
             /\ stats' = stats
             /\ k' = k + 1

\* C40: the ledger is looked up by the identifier string alone.  An import
\* operation whose identifier the ledger holds for an entity of another level
\* makes no call, creates nothing and records nothing: import_record passes
\* such a collection or series, import_digitalobject leaves the asset out,
\* and import_fileunit returns the store id of the other entity.
C40_CollisionAcrossLevels == [][CollisionStep]_vars

\* record 11 was imported after record 101: its file unit id is the id of the
\* series of record 101, whose store id import_record returned; there is no
\* file unit 11 in the store, and asset "7" of record 101 was left out
C40_Witness ==
    /\ scenario = "collide" /\ pc = "api"
    /\ apiCalls = <<"import_institution", "import_record", "import_record">>
    /\ file_num = 1 /\ i = 1
    /\ Str(11) \in DOMAIN nara_to_pi
    /\ result = nara_to_pi[Str(11)]
    /\ entities[result].level = "series"
    /\ \A p \in 1..Len(entities) :
        /\ ~(entities[p].level = "fileunit" /\ entities[p].sid = Str(11))
        /\ ~(entities[p].level = "digitalobject" /\ entities[p].sid = Str(7))
        /\ entities[p].sid # Str(508)
    /\ \E p \in 1..Len(entities) :
        entities[p].level = "digitalobject" /\ entities[p].sid = Str(507)

====
